---- MODULE Spec2Model ----
(***************************************************************************)
(* Verification model of the JSONScanner pipeline: Scanner.performScan,    *)
(* Executor.processProject / runAutorunCycle, Analyzer.analyzeProject,     *)
(* Results.saveProjectResults, TempFileManager staging, and the            *)
(* RuleEngine's executeRules / executeRule.                                *)
(*                                                                         *)
(* Files are token sequences; JSON.parse, the Analyzer's two regular       *)
(* expressions and JSON.stringify are operators on token sequences.        *)
(* src/Project.js is not part of the sources at hand: the Project methods  *)
(* the pipeline calls are modelled from the specification's data model.    *)
(***************************************************************************)
EXTENDS Integers, Sequences, FiniteSets, TLC

(***************************************************************************)
(* Bounds                                                                  *)
(***************************************************************************)
NumFiles == 2           \* descriptor files that may exist under the scan root
MaxCycles == 2          \* scan cycles of the autorun loop that are explored
MaxEvents == 1          \* external writes, throwing calls and copyToTemp calls

(***************************************************************************)
(* JSON text as tokens.                                                    *)
(*   "{" "}" ","  structural characters                                    *)
(*   "p"   a member  "a": 1                                                *)
(*   "n"   a member  "b": NaN      (not JSON)                              *)
(*   "z"   a member  "b": null                                             *)
(*   "nl"  a line feed (JSON whitespace, inside [\u0000-\u0019])           *)
(*   "ctl" a control character that is not whitespace, e.g. \u0001         *)
(*   "q"   an unterminated string                                          *)
(*   "pc"  a member  "c": "x,}"    (a string holding a comma and a brace)  *)
(*   "pd"  a member  "c": "x}"                                             *)
(*   "null" the literal null                                               *)
(***************************************************************************)
Tokens == {"{", "}", ",", "p", "n", "z", "nl", "ctl", "q", "pc", "pd", "null"}

Members == {"p", "z", "pc", "pd"}

RECURSIVE Without(_, _)
Without(s, toks) ==
  IF s = <<>> THEN <<>>
  ELSE IF Head(s) \in toks THEN Without(Tail(s), toks)
       ELSE <<Head(s)>> \o Without(Tail(s), toks)

\* the members of  m , m , ... , m  ; <<"fail">> when the list is malformed
RECURSIVE MemberList(_)
MemberList(s) ==
  IF Len(s) = 1 /\ s[1] \in Members THEN s
  ELSE IF Len(s) >= 3 /\ s[1] \in Members /\ s[2] = ","
       THEN LET rest == MemberList(SubSeq(s, 3, Len(s)))
            IN IF rest = <<"fail">> THEN rest ELSE <<s[1]>> \o rest
       ELSE <<"fail">>

NoValue == [ok |-> FALSE, truthy |-> FALSE, members |-> <<>>]

\* JSON.parse: ok = FALSE stands for the SyntaxError it throws
JsonParse(text) ==
  LET t == Without(text, {"nl"})
  IN IF t = <<"null">> THEN [ok |-> TRUE, truthy |-> FALSE, members |-> <<>>]
     ELSE IF Len(t) >= 2 /\ t[1] = "{" /\ t[Len(t)] = "}"
          THEN LET inner == SubSeq(t, 2, Len(t) - 1)
               IN IF inner = <<>>
                  THEN [ok |-> TRUE, truthy |-> TRUE, members |-> <<>>]
                  ELSE IF MemberList(inner) = <<"fail">> THEN NoValue
                       ELSE [ok |-> TRUE, truthy |-> TRUE,
                             members |-> MemberList(inner)]
          ELSE NoValue

\* JSON.stringify(data, null, 2) of a parsed object: one member per line
RECURSIVE StringifyMembers(_)
StringifyMembers(ms) ==
  IF ms = <<>> THEN <<>>
  ELSE IF Len(ms) = 1 THEN <<"nl", ms[1]>>
       ELSE <<"nl", ms[1], ",">> \o StringifyMembers(Tail(ms))

JsonStringify(value) ==
  IF ~value.truthy THEN <<"null">>
  ELSE IF value.members = <<>> THEN <<"{", "}">>
       ELSE <<"{">> \o StringifyMembers(value.members) \o <<"nl", "}">>

\* Project.sanitizeJsonContent: unquoted NaN literals become null
RECURSIVE sanitizeJsonContent(_)
sanitizeJsonContent(text) ==
  IF text = <<>> THEN <<>>
  ELSE <<IF Head(text) = "n" THEN "z" ELSE Head(text)>>
       \o sanitizeJsonContent(Tail(text))

\* the closing brace that /,\s*([}\]])/ finds after the comma at the head
\* of s: 0 when there is none, else its position in s
RECURSIVE ClosingAfterSpace(_, _)
ClosingAfterSpace(s, i) ==
  IF i > Len(s) THEN 0
  ELSE IF s[i] = "}" THEN i
       ELSE IF s[i] = "nl" THEN ClosingAfterSpace(s, i + 1)
            ELSE 0

\* content.replace(/,\s*([}\]])/g, "$1")
RECURSIVE RemoveTrailingCommas(_)
RemoveTrailingCommas(text) ==
  IF text = <<>> THEN <<>>
  ELSE IF Head(text) = "," /\ ClosingAfterSpace(text, 2) > 0
       THEN <<"}">> \o RemoveTrailingCommas(
                         SubSeq(text, ClosingAfterSpace(text, 2) + 1, Len(text)))
       ELSE <<IF Head(text) = "pc" THEN "pd" ELSE Head(text)>>
            \o RemoveTrailingCommas(Tail(text))

\* content.replace(/[\u0000-\u0019]+/g, "")
RemoveControlCharacters(text) == Without(text, {"nl", "ctl"})

(***************************************************************************)
(* Analyzer.validateAndFixJson on the text read from the file.             *)
(* Absent stands for readFileContent returning null.                       *)
(* The result is what the method returns: NoValue stands for null.         *)
(***************************************************************************)
Absent == <<"ENOENT">>

\* validateAndFixJson applying the repairs before the first parse
validateAndFixJson_RepairFirst(content) ==
  IF content = <<"ENOENT">> \/ content = <<>> THEN NoValue
  ELSE LET sanitized == sanitizeJsonContent(content)
           fixed == RemoveControlCharacters(RemoveTrailingCommas(sanitized))
       IN IF JsonParse(fixed).ok THEN JsonParse(fixed) ELSE NoValue

validateAndFixJson(content) ==
  IF content = Absent \/ content = <<>> THEN NoValue        \* if (!content)
  ELSE LET sanitized == sanitizeJsonContent(content)
           fixed == RemoveControlCharacters(RemoveTrailingCommas(sanitized))
       IN IF JsonParse(sanitized).ok THEN JsonParse(sanitized)
          ELSE IF JsonParse(fixed).ok THEN JsonParse(fixed)
               ELSE NoValue

(***************************************************************************)
(* The file system: a function from the paths that exist to files.         *)
(* A path is [area, dir, base, pos, suffix]; every file name ends in       *)
(* ".json".  area "source" is the scan root, "session" the TempSession     *)
(* directory.                                                              *)
(***************************************************************************)
Descriptors == 1..NumFiles

DescriptorPath(d) ==
  [area |-> "source",
   dir |-> ((d - 1) % 2) + 1,
   base |-> IF d <= 2 THEN "W1234AB01" ELSE "W5270NS01003",
   pos |-> IF d % 2 = 1 THEN "A" ELSE "",
   suffix |-> ""]

SourcePaths == {DescriptorPath(d) : d \in Descriptors}

\* the JSON texts a descriptor under the scan root may hold
Texts ==
  { <<"{", "p", "}">>,                      \* valid
    <<"{", "p", ",", "n", "}">>,            \* NaN member: valid once sanitized
    <<"{", "p", ",", "}">>,                 \* trailing comma
    <<"{", "q", "}">> }                     \* unterminated string

WriteFile(fsys, path, body, time) ==
  [q \in (DOMAIN fsys) \cup {path} |->
     IF q = path THEN [body |-> body, mtime |-> time] ELSE fsys[q]]

RemoveFiles(fsys, paths) == [q \in (DOMAIN fsys) \ paths |-> fsys[q]]

\* FileUtils.readFileContent: the text, or null when the read throws
readFileContent(fsys, path) ==
  IF path \in DOMAIN fsys THEN fsys[path].body ELSE Absent

(***************************************************************************)
(* Project (data model).                                                   *)
(***************************************************************************)
\* no path: a project without a JSON file, a path method returning null
NoPath == [area |-> "none", dir |-> 0, base |-> "", pos |-> "", suffix |-> ""]

getFixedFilePath(project) == [project.jsonFilePath EXCEPT !.suffix = "_BRK_fixed"]

getResultFilePath(project) ==
  IF project.jsonFilePath = NoPath THEN NoPath
  ELSE [project.jsonFilePath EXCEPT !.suffix = "_BRK_result"]

FatalMarkerPath(project) == [project.jsonFilePath EXCEPT !.suffix = "_BRK_fatal"]

hasFatalErrors(fsys, project) == FatalMarkerPath(project) \in DOMAIN fsys

\* a result artifact exists and the source is not newer than it
isAlreadyProcessed(fsys, project) ==
  /\ getResultFilePath(project) \in DOMAIN fsys
  /\ project.jsonFilePath \in DOMAIN fsys
  /\ ~(fsys[project.jsonFilePath].mtime > fsys[getResultFilePath(project)].mtime)

\* sanitize, parse, and accept only an object
loadJsonData(fsys, project) ==
  LET content == readFileContent(fsys, project.jsonFilePath)
  IN /\ content # Absent
     /\ JsonParse(sanitizeJsonContent(content)).ok
     /\ JsonParse(sanitizeJsonContent(content)).truthy

OperatorOf(path) == IF path.dir = 1 THEN "op1" ELSE "op2"

NewProject(jsonFile) ==
  [jsonFilePath |-> jsonFile.fullPath,
   name |-> jsonFile.projectName,
   position |-> jsonFile.position,
   operator |-> OperatorOf(jsonFile.fullPath),
   isValid |-> FALSE,
   status |-> "new",
   analysisResults |-> "unset"]

\* getAnalysisResults builds the metadata result when none was set
getAnalysisResults(project) ==
  IF project.analysisResults = "unset" THEN "metadata" ELSE project.analysisResults

\* the JSON text of a result object
ResultText(results) ==
  IF results = "empty" THEN <<"{", "}">> ELSE <<"{", "nl", "p", "nl", "}">>

(***************************************************************************)
(* State                                                                   *)
(***************************************************************************)
VARIABLES
  fs,            \* the file system
  now,           \* the clock that stamps modification times
  rootExists,    \* whether the scan path exists
  appConfig,     \* config.app: forceReprocess, testMode
  projects,      \* scanner.projects
  phase,         \* where runAutorunCycle stands: "scan", "process", "crashed"
  idx,           \* the index of the project the loop handles next
  cycle,         \* scanCount
  scanInfo,      \* what the last performScan did
  call,          \* what the last processProject call of this cycle did
  extWrites,     \* number of external writes so far
  throws,        \* number of processProject calls in which something threw
  stagings,      \* number of copyToTemp calls so far
  cleanRun,      \* performScans started since the source tree last changed
  original,      \* the source files as the environment last wrote them
  fileHashes,    \* TempFileManager.fileHashes
  pathMapping,   \* TempFileManager.pathMapping
  rules,         \* RuleEngine.rules, in insertion order
  rulesConfig,   \* config.rules
  ruleProject,   \* the project handed to executeRules
  results,       \* what executeRules returned
  invocations,   \* the rule invocations executeRules made, in order
  dirs,          \* the directories that exist under the temp root
  copyQueue,     \* TempFileManager.copyQueue
  tempOp,        \* what the last call on the TempFileManager did
  ruleFiles,     \* the modules in the rules directory, in readdirSync order
  ruleOp,        \* the last reloadRules() and the registry it found
  scanOp,        \* the arguments, faults and return value of the last performScan
  isRunning,     \* Executor.isRunning
  waiting,       \* the timers waitWithCountdown still has to sit out
  autorun,       \* config.app.autorun
  activations,   \* the calls of runAutorunCycle and runManualProject, begun or ended
  requests       \* the triggers sent to the downstream services by the last cycle

\* the disturbances so far: external writes, throwing calls, stagings
Events == extWrites + throws + stagings

pipelineVars == <<fs, now, rootExists, appConfig, projects, phase, idx, cycle,
                  scanInfo, call, extWrites, throws, stagings, cleanRun, original,
                  fileHashes, pathMapping>>

pipelineVarsButPhase == <<fs, now, rootExists, appConfig, projects, idx, cycle,
                          scanInfo, call, extWrites, throws, stagings, cleanRun,
                          original, fileHashes, pathMapping>>

ruleVars == <<rules, rulesConfig, ruleProject, results, invocations, ruleFiles,
              ruleOp>>

activationVars == <<autorun, activations, requests>>

executorVars == <<scanOp, isRunning, waiting, autorun, activations, requests>>

tempVars == <<dirs, copyQueue, tempOp>>

vars == <<fs, now, rootExists, appConfig, projects, phase, idx, cycle,
          scanInfo, call, extWrites, throws, stagings, cleanRun, original,
          fileHashes, pathMapping,
          rules, rulesConfig, ruleProject, results, invocations,
          dirs, copyQueue, tempOp, ruleFiles, ruleOp, scanOp, isRunning, waiting,
          autorun, activations, requests>>

(***************************************************************************)
(* Scanner                                                                 *)
(***************************************************************************)
NameSuffixes == <<"", "_BRK_fatal", "_BRK_fixed", "_BRK_result">>

\* descriptor indexes in the order of the directory walk: by directory,
\* then by name
RECURSIVE WalkIndexes(_, _)
WalkIndexes(dir, d) ==
  IF dir > 2 THEN <<>>
  ELSE IF d > NumFiles THEN WalkIndexes(dir + 1, 1)
       ELSE (IF DescriptorPath(d).dir = dir THEN <<d>> ELSE <<>>)
            \o WalkIndexes(dir, d + 1)

\* fs.readdirSync over the tree: the existing files in walk order
RECURSIVE DirListing(_, _, _)
DirListing(fsys, order, k) ==
  IF order = <<>> THEN <<>>
  ELSE IF k > Len(NameSuffixes) THEN DirListing(fsys, Tail(order), 1)
       ELSE LET path == [DescriptorPath(Head(order)) EXCEPT !.suffix = NameSuffixes[k]]
            IN (IF path \in DOMAIN fsys THEN <<path>> ELSE <<>>)
               \o DirListing(fsys, order, k + 1)

IsGeneratedName(path) == path.suffix \in {"_BRK_fixed", "_BRK_result"}

\* fileName.match(/^(W\d{4}[A-Z]{2}\d{2,})([A-Z]?)\.json$/)
MatchesProjectPattern(path) ==
  /\ path.suffix = ""
  /\ path.base \in {"W1234AB01", "W5270NS01003"}
  /\ path.pos \in {"", "A", "B"}

extractProjectInfoFromPath(path) ==
  [fullPath |-> path,
   projectBase |-> path.base,
   position |-> IF path.pos = "" THEN "A" ELSE path.pos,
   projectName |-> <<path.base, IF path.pos = "" THEN "A" ELSE path.pos>>]

\* the walk taking every .json file it meets
CollectJsonFiles_EveryJson(listing) ==
  [i \in 1..Len(listing) |-> extractProjectInfoFromPath(listing[i])]

RECURSIVE CollectJsonFiles(_)
CollectJsonFiles(listing) ==
  IF listing = <<>> THEN <<>>
  ELSE (IF ~IsGeneratedName(Head(listing)) /\ MatchesProjectPattern(Head(listing))
        THEN <<extractProjectInfoFromPath(Head(listing))>> ELSE <<>>)
       \o CollectJsonFiles(Tail(listing))

findAllJsonFiles(fsys) == CollectJsonFiles(DirListing(fsys, WalkIndexes(1, 1), 1))

RECURSIVE FilesWithKey(_, _, _)
FilesWithKey(files, key, same) ==
  IF files = <<>> THEN <<>>
  ELSE (IF (Head(files).projectName = key) = same THEN <<Head(files)>> ELSE <<>>)
       \o FilesWithKey(Tail(files), key, same)

\* the files in the order in which the loop over the groups visits them
RECURSIVE groupJsonFilesByProject(_)
groupJsonFilesByProject(files) ==
  IF files = <<>> THEN <<>>
  ELSE FilesWithKey(files, Head(files).projectName, TRUE)
       \o groupJsonFilesByProject(FilesWithKey(files, Head(files).projectName, FALSE))

\* the loop body with the force flag tested the wrong way round
ScanOne_ForceInverted(fsys, config, operatorFilter, jsonFile) ==
  LET project == NewProject(jsonFile)
  IN IF hasFatalErrors(fsys, project) THEN <<>>
     ELSE IF ~loadJsonData(fsys, project) THEN <<>>
     ELSE IF operatorFilter # "none" /\ project.operator # operatorFilter
          THEN <<>>
     ELSE IF isAlreadyProcessed(fsys, project) /\ config.forceReprocess THEN <<>>
     ELSE <<[project EXCEPT !.isValid = TRUE, !.status = "ready"]>>

\* the loop body with the force flag also overriding the fatal marker
ScanOne_ForceBeatsFatal(fsys, config, operatorFilter, jsonFile) ==
  LET project == NewProject(jsonFile)
  IN IF hasFatalErrors(fsys, project) /\ ~config.forceReprocess THEN <<>>
     ELSE IF ~loadJsonData(fsys, project) THEN <<>>
     ELSE IF operatorFilter # "none" /\ project.operator # operatorFilter
          THEN <<>>
     ELSE IF isAlreadyProcessed(fsys, project) /\ ~config.forceReprocess THEN <<>>
     ELSE <<[project EXCEPT !.isValid = TRUE, !.status = "ready"]>>

\* the loop body skipping a processed project whatever the force flag says
ScanOne_ForceIgnored(fsys, config, operatorFilter, jsonFile) ==
  LET project == NewProject(jsonFile)
  IN IF hasFatalErrors(fsys, project) THEN <<>>
     ELSE IF ~loadJsonData(fsys, project) THEN <<>>
     ELSE IF operatorFilter # "none" /\ project.operator # operatorFilter
          THEN <<>>
     ELSE IF isAlreadyProcessed(fsys, project) THEN <<>>
     ELSE <<[project EXCEPT !.isValid = TRUE, !.status = "ready"]>>

\* the loop body pushing the project whether or not its JSON loaded
ScanOne_LoadIgnored(fsys, config, operatorFilter, jsonFile) ==
  LET project == NewProject(jsonFile)
  IN IF hasFatalErrors(fsys, project) THEN <<>>
     ELSE IF operatorFilter # "none" /\ project.operator # operatorFilter
          THEN <<>>
     ELSE IF isAlreadyProcessed(fsys, project) /\ ~config.forceReprocess THEN <<>>
     ELSE <<[project EXCEPT !.isValid = TRUE, !.status = "ready"]>>

\* the body of the loop for one descriptor: the project it pushes, if any
ScanOne(fsys, config, operatorFilter, jsonFile) ==
  LET project == NewProject(jsonFile)
  IN IF hasFatalErrors(fsys, project) THEN <<>>
     ELSE IF ~loadJsonData(fsys, project) THEN <<>>
     ELSE IF operatorFilter # "none" /\ project.operator # operatorFilter
          THEN <<>>
     ELSE IF isAlreadyProcessed(fsys, project) /\ ~config.forceReprocess THEN <<>>
     ELSE <<[project EXCEPT !.isValid = TRUE, !.status = "ready"]>>

RECURSIVE ScanFiles(_, _, _, _)
ScanFiles(fsys, config, operatorFilter, files) ==
  IF files = <<>> THEN <<>>
  ELSE ScanOne(fsys, config, operatorFilter, Head(files))
       \o ScanFiles(fsys, config, operatorFilter, Tail(files))

(***************************************************************************)
(* Analyzer, Results                                                       *)
(* Every operation returns the file system it leaves and the log of the    *)
(* paths it wrote.                                                         *)
(***************************************************************************)

\* FileUtils.writeJsonFile
writeJsonFile(fsys, path, data, time) == WriteFile(fsys, path, JsonStringify(data), time)

\* analyzeProject writing the repaired JSON over the descriptor itself
analyzeProject_InPlace(fsys, project, time) ==
  IF project.jsonFilePath = NoPath
  THEN [fs |-> fsys, project |-> project, log |-> <<>>]
  ELSE LET fixedData == validateAndFixJson(readFileContent(fsys, project.jsonFilePath))
       IN IF fixedData.truthy
          THEN [fs |-> writeJsonFile(fsys, project.jsonFilePath, fixedData, time),
                project |-> [project EXCEPT !.status = "analyzed"],
                log |-> <<project.jsonFilePath>>]
          ELSE [fs |-> fsys,
                project |-> [project EXCEPT !.status = "analysis_failed"],
                log |-> <<>>]

analyzeProject(fsys, project, time) ==
  IF project.jsonFilePath = NoPath
  THEN [fs |-> fsys, project |-> project, log |-> <<>>]
  ELSE LET fixedPath == getFixedFilePath(project)
           fixedData == validateAndFixJson(readFileContent(fsys, project.jsonFilePath))
       IN IF fixedData.truthy
          THEN [fs |-> writeJsonFile(fsys, fixedPath, fixedData, time),
                project |-> [project EXCEPT !.status = "analyzed"],
                log |-> <<fixedPath>>]
          ELSE [fs |-> fsys,
                project |-> [project EXCEPT !.status = "analysis_failed"],
                log |-> <<>>]

\* if (!resultPath) return null, before anything is written
saveProjectResults(fsys, project, analysisResults, time) ==
  IF getResultFilePath(project) = NoPath THEN fsys
  ELSE WriteFile(fsys, getResultFilePath(project), ResultText(analysisResults), time)

\* the path saveProjectResults wrote for the project, if it wrote
Saved(project) ==
  IF getResultFilePath(project) = NoPath THEN <<>> ELSE <<getResultFilePath(project)>>

(***************************************************************************)
(* Executor.processProject                                                 *)
(* thrown = [at, msg]: where a call into the project throws inside the try *)
(* block ("none"; "analyze": getFullName or getFixedFilePath, before the   *)
(* file is read; "results": set/getAnalysisResults, before the result is   *)
(* saved) and its message.                                                 *)
(***************************************************************************)
Messages == {"JSON", "parse", "corrupt", "other"}

ThrowPoints == {"analyze", "results"}

Thrown == {[at |-> "none", msg |-> "other"]}
          \cup [at : ThrowPoints, msg : Messages]

\* the test of the message without its third alternative
IsCritical_NoCorrupt(msg) == msg \in {"JSON", "parse"}

\* err.message.includes("JSON") || includes("parse") || includes("corrupt")
IsCritical(msg) == msg \in {"JSON", "parse", "corrupt"}

markAsFatalError(fsys, project, time) ==
  WriteFile(fsys, FatalMarkerPath(project), <<"fatal">>, time)

setAnalysisResults(project, value) == [project EXCEPT !.analysisResults = value]

\* the try block after analyzeProject has returned a
AfterAnalysis(a, project, thrown, time) ==
  LET t == IF a.project.status = project.status THEN <<>>
           ELSE <<a.project.status>>
  IN IF thrown.at = "results" /\ a.project.status # "fatal_error"
     THEN [fs |-> a.fs, project |-> a.project, log |-> a.log, saves |-> 0,
           threw |-> TRUE, trace |-> t]
     ELSE IF a.project.status = "analysis_failed"
     THEN LET p1 == setAnalysisResults(a.project, "empty")
          IN [fs |-> saveProjectResults(a.fs, p1, getAnalysisResults(p1), time),
              project |-> p1,
              log |-> a.log \o Saved(p1),
              saves |-> 1, threw |-> FALSE, trace |-> t]
     ELSE IF a.project.status = "fatal_error"
     THEN [fs |-> a.fs, project |-> a.project, log |-> a.log, saves |-> 0,
           threw |-> FALSE, trace |-> t]
     ELSE LET p1 == setAnalysisResults(a.project, getAnalysisResults(a.project))
          IN [fs |-> saveProjectResults(a.fs, p1, getAnalysisResults(p1), time),
              project |-> [p1 EXCEPT !.status = "completed"],
              log |-> a.log \o Saved(p1),
              saves |-> 1, threw |-> FALSE, trace |-> t \o <<"completed">>]

\* the try block: threw tells whether control passes to the catch clause
TryBlock(fsys, project, thrown, time) ==
  IF thrown.at = "analyze"
  THEN [fs |-> fsys, project |-> project, log |-> <<>>, saves |-> 0,
        threw |-> TRUE, trace |-> <<>>]
  ELSE AfterAnalysis(analyzeProject(fsys, project, time), project, thrown, time)

\* the catch clause marking the project failed without saving a result
CatchBlock_NoSave(r, msg, time) ==
  IF ~r.threw THEN r
  ELSE IF IsCritical(msg)
  THEN [fs |-> markAsFatalError(r.fs, r.project, time),
        project |-> [r.project EXCEPT !.status = "fatal_error"],
        log |-> r.log \o <<FatalMarkerPath(r.project)>>,
        saves |-> r.saves, threw |-> FALSE,
        trace |-> r.trace \o <<"fatal_error">>]
  ELSE [fs |-> r.fs,
        project |-> setAnalysisResults([r.project EXCEPT !.status = "failed"], "empty"),
        log |-> r.log,
        saves |-> r.saves, threw |-> FALSE,
        trace |-> r.trace \o <<"failed">>]

\* the catch clause throwing the critical errors on to the caller
CatchBlock_Rethrows(r, msg, time) ==
  IF ~r.threw THEN r
  ELSE IF IsCritical(msg)
  THEN [fs |-> markAsFatalError(r.fs, r.project, time),
        project |-> [r.project EXCEPT !.status = "fatal_error"],
        log |-> r.log \o <<FatalMarkerPath(r.project)>>,
        saves |-> r.saves, threw |-> TRUE,
        trace |-> r.trace \o <<"fatal_error">>]
  ELSE LET p1 == setAnalysisResults([r.project EXCEPT !.status = "failed"], "empty")
       IN [fs |-> saveProjectResults(r.fs, p1, getAnalysisResults(p1), time),
           project |-> p1,
           log |-> r.log \o Saved(p1),
           saves |-> r.saves + 1, threw |-> FALSE,
           trace |-> r.trace \o <<"failed">>]

\* the catch clause, entered when the try block threw
CatchBlock(r, msg, time) ==
  IF ~r.threw THEN r
  ELSE IF IsCritical(msg)
  THEN [fs |-> markAsFatalError(r.fs, r.project, time),
        project |-> [r.project EXCEPT !.status = "fatal_error"],
        log |-> r.log \o <<FatalMarkerPath(r.project)>>,
        saves |-> r.saves, threw |-> FALSE,
        trace |-> r.trace \o <<"fatal_error">>]
  ELSE LET p1 == setAnalysisResults([r.project EXCEPT !.status = "failed"], "empty")
       IN [fs |-> saveProjectResults(r.fs, p1, getAnalysisResults(p1), time),
           project |-> p1,
           log |-> r.log \o Saved(p1),
           saves |-> r.saves + 1, threw |-> FALSE,
           trace |-> r.trace \o <<"failed">>]

processProject(fsys, project, thrown, time) ==
  CatchBlock(TryBlock(fsys, project, thrown, time), thrown.msg, time)

(***************************************************************************)
(* TempFileManager                                                         *)
(***************************************************************************)
\* path.join(sessionPath, getRelativePath(sourcePath))
TempPath(sourcePath) == [sourcePath EXCEPT !.area = "session"]

calculateFileHash(fsys, path) == <<"md5", fsys[path].body>>

SetEntry(map, key, value) ==
  [k \in (DOMAIN map) \cup {key} |-> IF k = key THEN value ELSE map[k]]

EmptyMap == [k \in {} |-> 0]

copyFileToTemp(fsys, hashes, mapping, sourcePath, time) ==
  LET tempPath == TempPath(sourcePath)
  IN [fs |-> WriteFile(fsys, tempPath, fsys[sourcePath].body, time),
      fileHashes |-> SetEntry(hashes, sourcePath,
                              [hash |-> calculateFileHash(fsys, sourcePath),
                               mtime |-> fsys[sourcePath].mtime,
                               tempPath |-> tempPath,
                               originalPath |-> sourcePath]),
      pathMapping |-> SetEntry(mapping, tempPath, sourcePath),
      log |-> <<tempPath>>]

SessionFiles(fsys) ==
  {q \in DOMAIN fsys : q.area \in {"session", "session/0", "session/1", "session/2"}}

(***************************************************************************)
(* Initial states                                                          *)
(***************************************************************************)
NoCall == [path |-> NoPath, text |-> Absent, thrown |-> [at |-> "none", msg |-> "other"],
           status |-> "none", saves |-> 0, propagated |-> FALSE,
           log |-> <<>>, trace |-> <<>>]

NoScan == [emitted |-> 0, log |-> <<>>]

RootPath == [area |-> "source", dir |-> 0, base |-> "", pos |-> "", suffix |-> ""]

\* the texts the descriptors hold when the process starts
InitialTexts == { <<"{", "p", "}">>, <<"{", "q", "}">> }

InitialTrees ==
  UNION {[{DescriptorPath(d) : d \in present} -> [body : InitialTexts, mtime : {0}]] :
           present \in SUBSET Descriptors}

InitPipeline ==
  /\ rootExists \in BOOLEAN
  /\ fs \in IF rootExists THEN InitialTrees ELSE {EmptyMap}
  /\ appConfig \in [forceReprocess : BOOLEAN,
                    testMode : IF rootExists THEN {FALSE} ELSE BOOLEAN]
  /\ now = 0
  /\ projects = <<>>
  /\ phase = "scan"
  /\ idx = 1
  /\ cycle = 0
  /\ scanInfo = NoScan
  /\ call = NoCall
  /\ extWrites = 0
  /\ throws = 0
  /\ stagings = 0
  /\ cleanRun = 0
  /\ original = fs
  /\ fileHashes = EmptyMap
  /\ pathMapping = EmptyMap

\* the session directory new TempFileManager() creates
SessionPath == [area |-> "session", dir |-> 0, base |-> "", pos |-> "", suffix |-> ""]

NoTempOp == [op |-> "none"]

\* a TempFileManager just constructed, none of its methods called yet
TempIdle ==
  /\ dirs = {SessionPath}
  /\ copyQueue = EmptyMap
  /\ tempOp = NoTempOp

NoRuleOp == [op |-> "none", before |-> <<>>]

RulesIdle ==
  /\ ruleOp = NoRuleOp
  /\ rules = <<>>
  /\ rulesConfig = EmptyMap
  /\ ruleProject = <<>>
  /\ results = EmptyMap
  /\ invocations = <<>>
  /\ ruleFiles = <<>>

NoScanOp == [op |-> "none"]

\* an Executor just constructed: not started, no scan made, no wait going on
ExecutorIdle ==
  /\ scanOp = NoScanOp
  /\ isRunning = FALSE
  /\ waiting = <<>>
  /\ autorun = TRUE
  /\ activations = <<>>
  /\ requests = <<>>

Init == InitPipeline /\ RulesIdle /\ TempIdle /\ ExecutorIdle

(***************************************************************************)
(* Actions of the pipeline                                                 *)
(***************************************************************************)
\* runAutorunCycle: scanner.projects = []; performScan(), no operator filter
PerformScan ==
  /\ phase = "scan"
  /\ cycle < MaxCycles
  /\ projects' = IF rootExists
                 THEN ScanFiles(fs, appConfig, "none",
                                groupJsonFilesByProject(findAllJsonFiles(fs)))
                 ELSE <<>>
  /\ rootExists' = (rootExists \/ ~appConfig.testMode)           \* mkdirSync
  /\ scanInfo' = [emitted |-> Len(projects'),
                  log |-> IF ~rootExists /\ ~appConfig.testMode
                          THEN <<RootPath>> ELSE <<>>]
  /\ phase' = "process"
  /\ idx' = 1
  /\ cycle' = cycle + 1
  /\ cleanRun' = IF cleanRun < 2 THEN cleanRun + 1 ELSE cleanRun
  /\ call' = NoCall
  /\ UNCHANGED <<fs, now, appConfig, extWrites, throws, stagings, original,
                 fileHashes, pathMapping>>
  /\ UNCHANGED ruleVars
  /\ UNCHANGED executorVars
  /\ UNCHANGED tempVars

\* what a call of processProject that returned r leaves behind
Recorded(r, thrown) ==
  /\ fs' = r.fs
  /\ projects' = [projects EXCEPT ![idx] = r.project]
  /\ call' = [path |-> projects[idx].jsonFilePath,
              text |-> readFileContent(fs, projects[idx].jsonFilePath),
              thrown |-> thrown,
              status |-> r.project.status,
              saves |-> r.saves,
              propagated |-> r.threw,
              log |-> r.log,
              trace |-> r.trace]

\* the call returns to the loop, or its exception ends the cycle
Returned(r, thrown) ==
  /\ Recorded(r, thrown)
  /\ phase' = IF r.threw THEN "crashed" ELSE phase

\* runAutorunCycle: the body of the loop over the projects
ProcessProject ==
  /\ phase = "process"
  /\ idx <= Len(projects)
  /\ projects[idx].status = "ready"
  /\ \E thrown \in Thrown :
       /\ thrown.at # "none" => Events < MaxEvents
       /\ throws' = IF thrown.at = "none" THEN throws ELSE throws + 1
       /\ Returned(processProject(fs, projects[idx], thrown, now), thrown)
  /\ idx' = idx + 1
  /\ UNCHANGED <<now, rootExists, appConfig, cycle, scanInfo, extWrites,
                 stagings, cleanRun, original, fileHashes, pathMapping>>
  /\ UNCHANGED ruleVars
  /\ UNCHANGED executorVars
  /\ UNCHANGED tempVars

\* runAutorunCycle: all projects handled, the loop goes round
EndCycle ==
  /\ phase = "process"
  /\ idx > Len(projects)
  /\ phase' = "scan"
  /\ UNCHANGED <<fs, now, rootExists, appConfig, projects, idx, cycle, scanInfo,
                 call, extWrites, throws, stagings, cleanRun, original, fileHashes,
                 pathMapping>>
  /\ UNCHANGED ruleVars
  /\ UNCHANGED executorVars
  /\ UNCHANGED tempVars

\* the CAM exporter writes a descriptor
ExternalWrite ==
  /\ rootExists
  /\ phase # "crashed"
  /\ Events < MaxEvents
  /\ \E d \in Descriptors, text \in Texts :
       /\ fs' = WriteFile(fs, DescriptorPath(d), text, now + 1)
       /\ original' = WriteFile(original, DescriptorPath(d), text, now + 1)
  /\ now' = now + 1
  /\ extWrites' = extWrites + 1
  /\ cleanRun' = 0
  /\ UNCHANGED <<rootExists, appConfig, projects, phase, idx, cycle, scanInfo,
                 call, throws, stagings, fileHashes, pathMapping>>
  /\ UNCHANGED ruleVars
  /\ UNCHANGED executorVars
  /\ UNCHANGED tempVars

\* an external collaborator clears the fatal markers (--clear-errors)
ClearFatalErrors ==
  /\ \E q \in DOMAIN fs : q.suffix = "_BRK_fatal"
  /\ fs' = RemoveFiles(fs, {q \in DOMAIN fs : q.suffix = "_BRK_fatal"})
  /\ cleanRun' = 0
  /\ UNCHANGED <<now, rootExists, appConfig, projects, phase, idx, cycle,
                 scanInfo, call, extWrites, throws, stagings, original, fileHashes,
                 pathMapping>>
  /\ UNCHANGED ruleVars
  /\ UNCHANGED executorVars
  /\ UNCHANGED tempVars

\* TempFileManager.copyToTemp on a descriptor file
CopyToTemp ==
  /\ phase = "scan"
  /\ Events < MaxEvents
  /\ stagings' = stagings + 1
  /\ \E d \in Descriptors :
       /\ DescriptorPath(d) \in DOMAIN fs
       /\ LET r == copyFileToTemp(fs, fileHashes, pathMapping, DescriptorPath(d), now)
          IN /\ fs' = r.fs
             /\ fileHashes' = r.fileHashes
             /\ pathMapping' = r.pathMapping
  /\ dirs' = dirs \cup {SessionPath}                          \* mkdirSync
  /\ UNCHANGED <<now, rootExists, appConfig, projects, phase, idx, cycle,
                 scanInfo, call, extWrites, throws, cleanRun, original>>
  /\ UNCHANGED ruleVars
  /\ UNCHANGED executorVars
  /\ UNCHANGED <<copyQueue, tempOp>>

\* TempFileManager.cleanup
Cleanup ==
  /\ phase = "scan"
  /\ SessionFiles(fs) # {}
  /\ fs' = RemoveFiles(fs, SessionFiles(fs))
  /\ fileHashes' = EmptyMap
  /\ pathMapping' = EmptyMap
  /\ dirs' = {}
  /\ UNCHANGED <<now, rootExists, appConfig, projects, phase, idx, cycle,
                 scanInfo, call, extWrites, throws, stagings, cleanRun, original>>
  /\ UNCHANGED ruleVars
  /\ UNCHANGED executorVars
  /\ UNCHANGED <<copyQueue, tempOp>>

Next ==
  \/ PerformScan
  \/ ProcessProject
  \/ EndCycle
  \/ ExternalWrite
  \/ ClearFatalErrors
  \/ CopyToTemp
  \/ Cleanup

Spec == Init /\ [][Next]_vars

TypeOK ==
  /\ phase \in {"scan", "process", "crashed"}
  /\ cycle \in 0..MaxCycles
  /\ \A i \in 1..Len(projects) :
       projects[i].status \in {"ready", "completed", "analysis_failed",
                               "failed", "fatal_error"}

(***************************************************************************)
(* The Analyzer on its own: analyzeProject called on one project, as the   *)
(* integration tests call it.                                              *)
(***************************************************************************)
MaxLen == 3   \* every token sequence up to this length is tried as a text

TokenSeqs == UNION {[1..n -> Tokens] : n \in 0..MaxLen}

AnalyzerTexts ==
  TokenSeqs \cup
  { <<"{", "p", ",", "}">>,
    <<"{", "p", ",", "n", "}">>,
    <<"{", "p", ",", "n", ",", "}">>,
    <<"{", "p", ",", "ctl", "}">>,
    <<"{", "p", ",", "nl", "}">>,
    <<"{", "p", ",", "pc", "}">>,
    <<"{", "nl", "p", ",", "nl", "z", "nl", "}">> }

InitAnalyzer ==
  /\ rootExists = TRUE
  /\ \E text \in AnalyzerTexts \cup {Absent} :
       fs = IF text = Absent THEN EmptyMap
            ELSE WriteFile(EmptyMap, DescriptorPath(1), text, 0)
  /\ \E path \in {DescriptorPath(1), NoPath} :
       projects = <<[NewProject(extractProjectInfoFromPath(DescriptorPath(1)))
                       EXCEPT !.jsonFilePath = path, !.status = "ready"]>>
  /\ appConfig = [forceReprocess |-> FALSE, testMode |-> FALSE]
  /\ now = 0
  /\ phase = "analyze"
  /\ idx = 1
  /\ cycle = 0
  /\ scanInfo = NoScan
  /\ call = NoCall
  /\ extWrites = 0
  /\ throws = 0
  /\ stagings = 0
  /\ cleanRun = 0
  /\ original = fs
  /\ fileHashes = EmptyMap
  /\ pathMapping = EmptyMap
  /\ RulesIdle
  /\ ExecutorIdle
  /\ TempIdle

\* analyzer.analyzeProject(project)
Analyze ==
  /\ phase = "analyze"
  /\ LET r == analyzeProject(fs, projects[1], now)
     IN /\ fs' = r.fs
        /\ projects' = <<r.project>>
        /\ call' = [NoCall EXCEPT !.path = projects[1].jsonFilePath,
                                  !.text = readFileContent(fs, projects[1].jsonFilePath),
                                  !.status = r.project.status,
                                  !.log = r.log]
  /\ phase' = "analyzed"
  /\ UNCHANGED <<now, rootExists, appConfig, idx, cycle, scanInfo, extWrites,
                 throws, stagings, cleanRun, original, fileHashes, pathMapping>>
  /\ UNCHANGED ruleVars
  /\ UNCHANGED executorVars
  /\ UNCHANGED tempVars

NextAnalyzer == Analyze

SpecAnalyzer == InitAnalyzer /\ [][NextAnalyzer]_vars

(***************************************************************************)
(* Executor.processProject on its own: called on one ready project, with   *)
(* or without a JSON file, as manual mode and the tests call it.           *)
(***************************************************************************)
InitProcess ==
  /\ rootExists = TRUE
  /\ \E text \in AnalyzerTexts \cup {Absent} :
       fs = IF text = Absent THEN EmptyMap
            ELSE WriteFile(EmptyMap, DescriptorPath(1), text, 0)
  /\ \E path \in {DescriptorPath(1), NoPath} :
       projects = <<[NewProject(extractProjectInfoFromPath(DescriptorPath(1)))
                       EXCEPT !.jsonFilePath = path, !.status = "ready"]>>
  /\ appConfig = [forceReprocess |-> FALSE, testMode |-> FALSE]
  /\ now = 0
  /\ phase = "call"
  /\ idx = 1
  /\ cycle = 0
  /\ scanInfo = NoScan
  /\ call = NoCall
  /\ extWrites = 0
  /\ throws = 0
  /\ stagings = 0
  /\ cleanRun = 0
  /\ original = fs
  /\ fileHashes = EmptyMap
  /\ pathMapping = EmptyMap
  /\ RulesIdle
  /\ ExecutorIdle
  /\ TempIdle

\* executor.processProject(project)
ProcessOne ==
  /\ phase = "call"
  /\ \E thrown \in Thrown :
       /\ throws' = IF thrown.at = "none" THEN throws ELSE throws + 1
       /\ Recorded(processProject(fs, projects[idx], thrown, now), thrown)
  /\ phase' = "called"
  /\ idx' = idx + 1
  /\ UNCHANGED <<now, rootExists, appConfig, cycle, scanInfo, extWrites,
                 stagings, cleanRun, original, fileHashes, pathMapping>>
  /\ UNCHANGED ruleVars
  /\ UNCHANGED executorVars
  /\ UNCHANGED tempVars

NextProcess == ProcessOne

SpecProcess == InitProcess /\ [][NextProcess]_vars

(***************************************************************************)
(* The TempFileManager on its own: files and directories of a source tree  *)
(* are staged, changed from outside, checked for changes and cleaned up.   *)
(***************************************************************************)
NumStaged == 3    \* files of the source tree, two in one folder
MaxTempOps == 2   \* stagings and outside changes in one behaviour

StagedPaths == {DescriptorPath(d) : d \in 1..NumStaged}

\* the folder k of the source tree, 0 being its root
DirPath(k) == [RootPath EXCEPT !.dir = k]

\* fs.statSync(sourcePath).isDirectory()
IsDirectory(path) == path.base = ""

\* fs.readdirSync down from folder top, the recursion unfolded: the files
\* in the order in which copyDirectoryToTemp reaches them
RECURSIVE ItemsBelow(_, _, _, _)
ItemsBelow(fsys, top, dir, d) ==
  IF dir > 2 THEN <<>>
  ELSE IF d > NumStaged THEN ItemsBelow(fsys, top, dir + 1, 1)
       ELSE (IF /\ DescriptorPath(d).dir = dir
                /\ top \in {0, dir}
                /\ DescriptorPath(d) \in DOMAIN fsys
             THEN <<DescriptorPath(d)>> ELSE <<>>)
            \o ItemsBelow(fsys, top, dir, d + 1)

\* the copies of a staged folder lie in a folder of their own under the
\* session directory, named after the flattened path of the folder
StagedAreas == <<"session/0", "session/1", "session/2">>

\* path.join(tempPath, item) below the copy of folder top
tempItem(top, sourceItem) == [sourceItem EXCEPT !.area = StagedAreas[top + 1]]

\* the directories mkdirSync(dirname(tempPath), { recursive: true }) makes
\* sure of
TempDirs(tempPath) ==
  IF tempPath.area = "session" THEN {SessionPath}
  ELSE IF tempPath.area = StagedAreas[1]
  THEN {SessionPath,
        [SessionPath EXCEPT !.area = tempPath.area],
        [SessionPath EXCEPT !.area = tempPath.area, !.dir = tempPath.dir]}
  ELSE {SessionPath, [SessionPath EXCEPT !.area = tempPath.area]}

\* the state a TempFileManager method works on
TempState(fsys, hashes, mapping, queue, directories) ==
  [fs |-> fsys, fileHashes |-> hashes, pathMapping |-> mapping,
   copyQueue |-> queue, dirs |-> directories]

\* copyFileToTemp(sourcePath, tempPath) going through
copyItem(st, sourcePath, tempPath, time) ==
  [st EXCEPT
     !.dirs = st.dirs \cup TempDirs(tempPath),
     !.fs = WriteFile(st.fs, tempPath, st.fs[sourcePath].body, time),
     !.fileHashes = SetEntry(st.fileHashes, sourcePath,
                             [hash |-> calculateFileHash(st.fs, sourcePath),
                              mtime |-> st.fs[sourcePath].mtime,
                              tempPath |-> tempPath,
                              originalPath |-> sourcePath]),
     !.pathMapping = SetEntry(st.pathMapping, tempPath, sourcePath)]

\* the loop of copyDirectoryToTemp over items that can all be read
RECURSIVE CopyItems(_, _, _, _)
CopyItems(st, top, items, time) ==
  IF items = <<>> THEN st
  ELSE CopyItems(copyItem(st, Head(items), tempItem(top, Head(items)), time),
                 top, Tail(items), time)

\* the directories a copy of folder top has made when it reaches item k
DirsReached(top, items, k) ==
  UNION {TempDirs(tempItem(top, items[i])) : i \in 1..k}
  \cup {SessionPath, [SessionPath EXCEPT !.area = StagedAreas[top + 1]]}

\* a copy of a folder that undoes its copies when one of them fails
copyDirectoryToTemp_RollsBack(st, top, items, failAt, time) ==
  IF failAt = 0 THEN CopyItems(st, top, items, time) ELSE st

\* copyDirectoryToTemp(sourcePath, tempPath) when item failAt cannot be read
\* (failAt = 0: all can): the items before it are copied, then it throws
copyDirectoryToTemp(st, top, items, failAt, time) ==
  IF failAt = 0
  THEN [CopyItems(st, top, items, time)
          EXCEPT !.dirs = @ \cup DirsReached(top, items, Len(items))]
  ELSE [CopyItems(st, top, SubSeq(items, 1, failAt - 1), time)
          EXCEPT !.dirs = @ \cup DirsReached(top, items, failAt)]

\* one turn of the loop of detectChanges that reports a file whose
\* modification time moved without comparing hashes
CheckPath_MtimeOnly(fsys, hashes, sourcePath) ==
  IF sourcePath \notin DOMAIN fsys
  THEN [changed |-> <<>>, new |-> <<>>, deleted |-> <<sourcePath>>, hit |-> TRUE,
        hashed |-> <<>>]
  ELSE IF sourcePath \notin DOMAIN hashes
  THEN [changed |-> <<>>, new |-> <<sourcePath>>, deleted |-> <<>>, hit |-> TRUE,
        hashed |-> <<>>]
  ELSE IF fsys[sourcePath].mtime # hashes[sourcePath].mtime
  THEN [changed |-> <<[path |-> sourcePath,
                       oldHash |-> hashes[sourcePath].hash,
                       newHash |-> calculateFileHash(fsys, sourcePath),
                       oldMtime |-> hashes[sourcePath].mtime,
                       newMtime |-> fsys[sourcePath].mtime]>>,
        new |-> <<>>, deleted |-> <<>>, hit |-> TRUE,
        hashed |-> <<sourcePath>>]
  ELSE [changed |-> <<>>, new |-> <<>>, deleted |-> <<>>, hit |-> FALSE,
        hashed |-> <<>>]

\* one turn of the loop that goes on after it found the path missing
CheckPath_NoContinue(fsys, hashes, sourcePath) ==
  IF sourcePath \notin DOMAIN fsys
  THEN [changed |-> <<>>,
        new |-> IF sourcePath \notin DOMAIN hashes THEN <<sourcePath>> ELSE <<>>,
        deleted |-> <<sourcePath>>, hit |-> TRUE,
        hashed |-> <<>>]
  ELSE IF sourcePath \notin DOMAIN hashes
  THEN [changed |-> <<>>, new |-> <<sourcePath>>, deleted |-> <<>>, hit |-> TRUE,
        hashed |-> <<>>]
  ELSE IF /\ fsys[sourcePath].mtime # hashes[sourcePath].mtime
          /\ calculateFileHash(fsys, sourcePath) # hashes[sourcePath].hash
  THEN [changed |-> <<[path |-> sourcePath,
                       oldHash |-> hashes[sourcePath].hash,
                       newHash |-> calculateFileHash(fsys, sourcePath),
                       oldMtime |-> hashes[sourcePath].mtime,
                       newMtime |-> fsys[sourcePath].mtime]>>,
        new |-> <<>>, deleted |-> <<>>, hit |-> TRUE,
        hashed |-> <<sourcePath>>]
  ELSE [changed |-> <<>>, new |-> <<>>, deleted |-> <<>>, hit |-> FALSE,
        hashed |-> IF fsys[sourcePath].mtime # hashes[sourcePath].mtime
                   THEN <<sourcePath>> ELSE <<>>]

\* one turn of the loop that computes and compares the hash whatever the
\* modification times are
CheckPath_AlwaysHashes(fsys, hashes, sourcePath) ==
  IF sourcePath \notin DOMAIN fsys
  THEN [changed |-> <<>>, new |-> <<>>, deleted |-> <<sourcePath>>, hit |-> TRUE,
        hashed |-> <<>>]
  ELSE IF sourcePath \notin DOMAIN hashes
  THEN [changed |-> <<>>, new |-> <<sourcePath>>, deleted |-> <<>>, hit |-> TRUE,
        hashed |-> <<>>]
  ELSE IF calculateFileHash(fsys, sourcePath) # hashes[sourcePath].hash
  THEN [changed |-> <<[path |-> sourcePath,
                       oldHash |-> hashes[sourcePath].hash,
                       newHash |-> calculateFileHash(fsys, sourcePath),
                       oldMtime |-> hashes[sourcePath].mtime,
                       newMtime |-> fsys[sourcePath].mtime]>>,
        new |-> <<>>, deleted |-> <<>>, hit |-> TRUE,
        hashed |-> <<sourcePath>>]
  ELSE [changed |-> <<>>, new |-> <<>>, deleted |-> <<>>, hit |-> FALSE,
        hashed |-> <<sourcePath>>]

\* one turn of the loop of detectChanges: what it pushes to the three lists,
\* whether it sets hasChanges, and the paths it called calculateFileHash for
CheckPath(fsys, hashes, sourcePath) ==
  IF sourcePath \notin DOMAIN fsys
  THEN [changed |-> <<>>, new |-> <<>>, deleted |-> <<sourcePath>>, hit |-> TRUE,
        hashed |-> <<>>]
  ELSE IF sourcePath \notin DOMAIN hashes
  THEN [changed |-> <<>>, new |-> <<sourcePath>>, deleted |-> <<>>, hit |-> TRUE,
        hashed |-> <<>>]
  ELSE IF /\ fsys[sourcePath].mtime # hashes[sourcePath].mtime
          /\ calculateFileHash(fsys, sourcePath) # hashes[sourcePath].hash
  THEN [changed |-> <<[path |-> sourcePath,
                       oldHash |-> hashes[sourcePath].hash,
                       newHash |-> calculateFileHash(fsys, sourcePath),
                       oldMtime |-> hashes[sourcePath].mtime,
                       newMtime |-> fsys[sourcePath].mtime]>>,
        new |-> <<>>, deleted |-> <<>>, hit |-> TRUE,
        hashed |-> <<sourcePath>>]
  ELSE [changed |-> <<>>, new |-> <<>>, deleted |-> <<>>, hit |-> FALSE,
        hashed |-> IF fsys[sourcePath].mtime # hashes[sourcePath].mtime
                   THEN <<sourcePath>> ELSE <<>>]

\* the changes object at the start; hashed is not part of it: it keeps the
\* paths whose hash the call computed
NoChanges ==
  [hasChanges |-> FALSE, changedFiles |-> <<>>, newFiles |-> <<>>,
   deletedFiles |-> <<>>, summary |-> 0, hashed |-> <<>>]

\* changes after one more turn of the loop pushed what c holds
Pushed(changes, c) ==
  [hasChanges |-> changes.hasChanges \/ c.hit,
   changedFiles |-> changes.changedFiles \o c.changed,
   newFiles |-> changes.newFiles \o c.new,
   deletedFiles |-> changes.deletedFiles \o c.deleted,
   summary |-> changes.summary + Len(c.changed) + Len(c.new) + Len(c.deleted),
   hashed |-> changes.hashed \o c.hashed]

\* detectChanges: the loop over pathsToCheck; summary is the total it names
RECURSIVE detectChanges(_, _, _, _)
detectChanges(fsys, hashes, pathsToCheck, changes) ==
  IF pathsToCheck = <<>> THEN changes
  ELSE detectChanges(fsys, hashes, Tail(pathsToCheck),
                     Pushed(changes, CheckPath(fsys, hashes, Head(pathsToCheck))))

\* the paths of a set in the order of the walk
RECURSIVE InWalkOrder(_, _)
InWalkOrder(paths, d) ==
  IF d > NumStaged THEN <<>>
  ELSE (IF DescriptorPath(d) \in paths THEN <<DescriptorPath(d)>> ELSE <<>>)
       \o InWalkOrder(paths, d + 1)

\* a cleanup that forgets the reverse mapping
cleanup_KeepsMapping(st) ==
  [st EXCEPT !.fs = RemoveFiles(st.fs, SessionFiles(st.fs)),
             !.dirs = {},
             !.fileHashes = EmptyMap,
             !.copyQueue = EmptyMap]

\* cleanup(): removeDirectory(sessionPath), then the three clear() calls
cleanup(st) ==
  [st EXCEPT !.fs = RemoveFiles(st.fs, SessionFiles(st.fs)),
             !.dirs = {},
             !.fileHashes = EmptyMap,
             !.copyQueue = EmptyMap,
             !.pathMapping = EmptyMap]

TempOps == extWrites + stagings

InitTemp ==
  /\ rootExists = TRUE
  /\ \E present \in SUBSET StagedPaths :
       fs = [q \in present |-> [body |-> <<"{", "p", "}">>, mtime |-> 0]]
  /\ appConfig = [forceReprocess |-> FALSE, testMode |-> FALSE]
  /\ now = 0
  /\ projects = <<>>
  /\ phase = "temp"
  /\ idx = 1
  /\ cycle = 0
  /\ scanInfo = NoScan
  /\ call = NoCall
  /\ extWrites = 0
  /\ throws = 0
  /\ stagings = 0
  /\ cleanRun = 0
  /\ original = fs
  /\ fileHashes = EmptyMap
  /\ pathMapping = EmptyMap
  /\ RulesIdle
  /\ ExecutorIdle
  /\ TempIdle

\* what a TempFileManager method that left st behind and set op changes
TempReturned(st, op) ==
  /\ fs' = st.fs
  /\ fileHashes' = st.fileHashes
  /\ pathMapping' = st.pathMapping
  /\ copyQueue' = st.copyQueue
  /\ dirs' = st.dirs
  /\ tempOp' = op
  /\ UNCHANGED <<now, rootExists, appConfig, projects, phase, idx, cycle,
                 scanInfo, call, extWrites, throws, cleanRun, original>>
  /\ UNCHANGED ruleVars
  /\ UNCHANGED executorVars

\* tempManager.copyToTemp(file)
StageFile ==
  /\ phase = "temp"
  /\ TempOps < MaxTempOps
  /\ stagings' = stagings + 1
  /\ \E sourcePath \in StagedPaths \cap DOMAIN fs :
       TempReturned(copyItem(TempState(fs, fileHashes, pathMapping, copyQueue, dirs),
                             sourcePath, TempPath(sourcePath), now),
                    [op |-> "copy", source |-> sourcePath, items |-> <<sourcePath>>,
                     top |-> 0, failAt |-> 0, threw |-> FALSE,
                     before |-> [fs |-> fs, fileHashes |-> fileHashes,
                                 pathMapping |-> pathMapping]])

\* tempManager.copyToTemp(folder), one of its files possibly unreadable
StageDirectory ==
  /\ phase = "temp"
  /\ TempOps < MaxTempOps
  /\ stagings' = stagings + 1
  /\ \E top \in 0..2 :
       /\ top # 0 => ItemsBelow(fs, top, 1, 1) # <<>>
       /\ \E failAt \in 0..Len(ItemsBelow(fs, top, 1, 1)) :
            TempReturned(copyDirectoryToTemp(
                           TempState(fs, fileHashes, pathMapping, copyQueue, dirs),
                           top, ItemsBelow(fs, top, 1, 1), failAt, now),
                         [op |-> "copy", source |-> DirPath(top),
                          items |-> ItemsBelow(fs, top, 1, 1),
                          top |-> top, failAt |-> failAt, threw |-> failAt # 0,
                          before |-> [fs |-> fs, fileHashes |-> fileHashes,
                                      pathMapping |-> pathMapping]])

\* someone rewrites a file of the source tree, with new or with the same
\* content, or removes it
OutsideChange ==
  /\ phase = "temp"
  /\ TempOps < MaxTempOps
  /\ extWrites' = extWrites + 1
  /\ now' = now + 1
  /\ \E sourcePath \in StagedPaths :
       \/ \E text \in InitialTexts : fs' = WriteFile(fs, sourcePath, text, now + 1)
       \/ /\ sourcePath \in DOMAIN fs
          /\ fs' = RemoveFiles(fs, {sourcePath})
  /\ original' = [q \in StagedPaths \cap DOMAIN fs' |-> fs'[q]]
  /\ tempOp' = [op |-> "outside"]
  /\ UNCHANGED <<rootExists, appConfig, projects, phase, idx, cycle, scanInfo,
                 call, throws, stagings, cleanRun, fileHashes, pathMapping,
                 dirs, copyQueue>>
  /\ UNCHANGED ruleVars
  /\ UNCHANGED executorVars

\* tempManager.detectChanges(), or detectChanges(sourcePaths)
DetectChanges ==
  /\ phase = "temp"
  /\ tempOp.op # "detect"
  /\ \E given \in BOOLEAN, paths \in {StagedPaths, DOMAIN fileHashes} :
       /\ paths = IF given THEN StagedPaths ELSE DOMAIN fileHashes
       /\ tempOp' = [op |-> "detect", given |-> given,
                     afterUpdate |-> tempOp.op = "update" /\ tempOp.given = given,
                     pathsToCheck |-> InWalkOrder(paths, 1),
                     changes |-> detectChanges(fs, fileHashes,
                                               InWalkOrder(paths, 1), NoChanges)]
  /\ UNCHANGED <<fs, now, rootExists, appConfig, projects, phase, idx, cycle,
                 scanInfo, call, extWrites, throws, stagings, cleanRun, original,
                 fileHashes, pathMapping, dirs, copyQueue>>
  /\ UNCHANGED ruleVars
  /\ UNCHANGED executorVars

\* the paths updateChangedFiles hands to copyToTemp, in its order
UpdatedSources(changes) ==
  [k \in 1..Len(changes.changedFiles) |-> changes.changedFiles[k].path]
  \o changes.newFiles

\* updateChangedFiles(changes): copyToTemp for every changed file, then for
\* every new file; deletedFiles is not looked at
RECURSIVE updateChangedFiles(_, _, _)
updateChangedFiles(st, sources, time) ==
  IF sources = <<>> THEN st
  ELSE updateChangedFiles(copyItem(st, Head(sources), TempPath(Head(sources)), time),
                          Tail(sources), time)

\* tempManager.updateChangedFiles(changes), changes being what the
\* detectChanges just before returned; explored once the stagings and
\* outside changes of the behaviour are spent
UpdateChangedFiles ==
  /\ phase = "temp"
  /\ tempOp.op = "detect"
  /\ TempOps = MaxTempOps
  /\ UNCHANGED stagings
  /\ TempReturned(updateChangedFiles(
                   TempState(fs, fileHashes, pathMapping, copyQueue, dirs),
                   UpdatedSources(tempOp.changes), now),
                 [op |-> "update", given |-> tempOp.given,
                  changes |-> tempOp.changes,
                  updatedPaths |-> [k \in 1..Len(UpdatedSources(tempOp.changes)) |->
                                      TempPath(UpdatedSources(tempOp.changes)[k])]])

\* tempManager.cleanup()
TempCleanup ==
  /\ phase = "temp"
  /\ tempOp.op # "cleanup"
  /\ UNCHANGED stagings
  /\ TempReturned(cleanup(TempState(fs, fileHashes, pathMapping, copyQueue, dirs)),
                  [op |-> "cleanup",
                   before |-> [fs |-> fs, fileHashes |-> fileHashes,
                               pathMapping |-> pathMapping]])

NextTemp ==
  \/ StageFile
  \/ StageDirectory
  \/ OutsideChange
  \/ DetectChanges
  \/ UpdateChangedFiles
  \/ TempCleanup

SpecTemp == InitTemp /\ [][NextTemp]_vars

(***************************************************************************)
(* copyFileToTemp step by step: the hash is awaited, and whatever else     *)
(* runs on the machine may write the source before the copy is made.       *)
(***************************************************************************)
\* copyFileToTemp from statSync on, sourceHash being what the awaited
\* calculateFileHash gave
copyFileAfterHash(st, sourcePath, tempPath, sourceHash, time) ==
  [st EXCEPT
     !.fs = WriteFile(st.fs, tempPath, st.fs[sourcePath].body, time),
     !.fileHashes = SetEntry(st.fileHashes, sourcePath,
                             [hash |-> sourceHash,
                              mtime |-> st.fs[sourcePath].mtime,
                              tempPath |-> tempPath,
                              originalPath |-> sourcePath]),
     !.pathMapping = SetEntry(st.pathMapping, tempPath, sourcePath)]

InitCopy ==
  /\ InitTemp
  /\ fs # EmptyMap

\* copyToTemp(file) up to the await in copyFileToTemp: the parent directory
\* is made, the stream over the source is read to its end
CopyHashes ==
  /\ phase = "temp"
  /\ tempOp.op # "hashing"
  /\ TempOps < MaxTempOps
  /\ stagings' = stagings + 1
  /\ \E sourcePath \in StagedPaths \cap DOMAIN fs :
       /\ dirs' = dirs \cup TempDirs(TempPath(sourcePath))
       /\ tempOp' = [op |-> "hashing", source |-> sourcePath,
                     sourceHash |-> calculateFileHash(fs, sourcePath)]
  /\ UNCHANGED <<fs, now, rootExists, appConfig, projects, phase, idx, cycle,
                 scanInfo, call, extWrites, throws, cleanRun, original,
                 fileHashes, pathMapping, copyQueue>>
  /\ UNCHANGED ruleVars
  /\ UNCHANGED executorVars

\* the rest of copyFileToTemp once the hash has arrived; statSync throws
\* when the source is gone
CopyCompletes ==
  /\ phase = "temp"
  /\ tempOp.op = "hashing"
  /\ UNCHANGED stagings
  /\ IF tempOp.source \in DOMAIN fs
     THEN TempReturned(copyFileAfterHash(
                         TempState(fs, fileHashes, pathMapping, copyQueue, dirs),
                         tempOp.source, TempPath(tempOp.source),
                         tempOp.sourceHash, now),
                       [op |-> "copied", source |-> tempOp.source, threw |-> FALSE])
     ELSE TempReturned(TempState(fs, fileHashes, pathMapping, copyQueue, dirs),
                       [op |-> "copied", source |-> tempOp.source, threw |-> TRUE])

\* another process rewrites a file of the source tree, with new or with the
\* same content, or removes it
WriterActs ==
  /\ phase = "temp"
  /\ TempOps < MaxTempOps
  /\ extWrites' = extWrites + 1
  /\ now' = now + 1
  /\ \E sourcePath \in StagedPaths :
       \/ \E text \in InitialTexts : fs' = WriteFile(fs, sourcePath, text, now + 1)
       \/ /\ sourcePath \in DOMAIN fs
          /\ fs' = RemoveFiles(fs, {sourcePath})
  /\ original' = [q \in StagedPaths \cap DOMAIN fs' |-> fs'[q]]
  /\ UNCHANGED <<rootExists, appConfig, projects, phase, idx, cycle, scanInfo,
                 call, throws, stagings, cleanRun, fileHashes, pathMapping,
                 dirs, copyQueue, tempOp>>
  /\ UNCHANGED ruleVars
  /\ UNCHANGED executorVars

NextCopy == CopyHashes \/ CopyCompletes \/ WriterActs

SpecCopy == InitCopy /\ [][NextCopy]_vars

(***************************************************************************)
(* The names of the staged copies: getRelativePath on the characters of    *)
(* the source path, and the two maps copyToTemp keeps.  A path is the      *)
(* sequence of its pieces: a separator, a letter, the seven letters        *)
(* _SLASH_ as they may stand in a file name, or a name of 180 letters.     *)
(***************************************************************************)
MaxPathLen == 4   \* pieces of an absolute source path
maxLength == 180  \* const maxLength = 180

PathPieces == {"/", "a", "_SLASH_", "n180"}

\* the number of characters of a piece
PieceLength(piece) ==
  IF piece = "n180" THEN 180
  ELSE IF piece \in {"_SLASH_", "_COLON_"} THEN 7
  ELSE IF piece = "_BACKSLASH_" THEN 11
  ELSE 1

RECURSIVE PathLength(_)
PathLength(path) ==
  IF path = <<>> THEN 0 ELSE PieceLength(Head(path)) + PathLength(Tail(path))

\* the absolute paths of files: they begin with a separator, do not end
\* with one and have no empty name
AbsolutePaths ==
  {path \in UNION {[1..n -> PathPieces] : n \in 2..MaxPathLen} :
     /\ path[1] = "/"
     /\ path[Len(path)] # "/"
     /\ \A i \in 1..(Len(path) - 1) : ~(path[i] = "/" /\ path[i + 1] = "/")}

\* the place of the last separator of path
LastSeparator(path) ==
  IF \E i \in 1..Len(path) : path[i] = "/"
  THEN CHOOSE i \in 1..Len(path) :
         path[i] = "/" /\ \A j \in (i + 1)..Len(path) : path[j] # "/"
  ELSE 0

\* path.basename(path)
Basename(path) == SubSeq(path, LastSeparator(path) + 1, Len(path))

\* path.dirname(path)
Dirname(path) ==
  IF LastSeparator(path) <= 1 THEN SubSeq(path, 1, LastSeparator(path))
  ELSE SubSeq(path, 1, LastSeparator(path) - 1)

\* getRelativePath(absolutePath)
getRelativePath(absolutePath) ==
  LET safePath == [i \in 1..Len(absolutePath) |->
                     IF absolutePath[i] = ":" THEN "_COLON_"
                     ELSE IF absolutePath[i] = "\\" THEN "_BACKSLASH_"
                     ELSE IF absolutePath[i] = "/" THEN "_SLASH_"
                     ELSE absolutePath[i]]
  IN IF PathLength(safePath) > maxLength
     THEN <<"md5">> \o absolutePath \o <<"_">> \o Basename(Dirname(absolutePath))
          \o <<"_">> \o Basename(absolutePath)
     ELSE safePath

\* path.join(this.sessionPath, relativePath)
JoinSession(relativePath) == <<"session", "/">> \o relativePath

\* copyToTemp(sourcePath) for a file
copyToTemp(st, sourcePath, time) ==
  copyFileAfterHash(st, sourcePath, JoinSession(getRelativePath(sourcePath)),
                    calculateFileHash(st.fs, sourcePath), time)

\* getTempPath(originalPath)
getTempPath(hashes, originalPath) ==
  IF originalPath \in DOMAIN hashes THEN hashes[originalPath].tempPath ELSE <<>>

\* getOriginalPath(tempPath): the direct mapping, then the search through
\* fileHashes, then null
getOriginalPath(mapping, hashes, tempPath) ==
  IF tempPath \in DOMAIN mapping THEN mapping[tempPath]
  ELSE IF \E q \in DOMAIN hashes : hashes[q].tempPath = tempPath
       THEN CHOOSE q \in DOMAIN hashes : hashes[q].tempPath = tempPath
       ELSE <<>>

\* the files of the source tree: one file is not the folder of another
InitPaths ==
  /\ rootExists = TRUE
  /\ \E first \in AbsolutePaths, second \in AbsolutePaths :
       /\ \A q \in {first, second} : \A r \in {first, second} :
            ~(Len(q) < Len(r) /\ SubSeq(r, 1, Len(q) + 1) = q \o <<"/">>)
       /\ fs = [q \in {first, second} |->
                  [body |-> IF q = first THEN <<"{", "p", "}">> ELSE <<"{", "q", "}">>,
                   mtime |-> 0]]
  /\ appConfig = [forceReprocess |-> FALSE, testMode |-> FALSE]
  /\ now = 0
  /\ projects = <<>>
  /\ phase = "paths"
  /\ idx = 1
  /\ cycle = 0
  /\ scanInfo = NoScan
  /\ call = NoCall
  /\ extWrites = 0
  /\ throws = 0
  /\ stagings = 0
  /\ cleanRun = 0
  /\ original = fs
  /\ fileHashes = EmptyMap
  /\ pathMapping = EmptyMap
  /\ RulesIdle
  /\ ExecutorIdle
  /\ TempIdle

\* tempManager.copyToTemp(sourcePath) for a file of the source tree
CopyPath ==
  /\ phase = "paths"
  /\ stagings < MaxTempOps
  /\ stagings' = stagings + 1
  /\ \E sourcePath \in DOMAIN original :
       TempReturned(copyToTemp(TempState(fs, fileHashes, pathMapping, copyQueue, dirs),
                               sourcePath, now),
                    [op |-> "copy", source |-> sourcePath])

SpecPaths == InitPaths /\ [][CopyPath]_vars

(***************************************************************************)
(* TempFileManager.cleanupOldSessions on its own: the sweep over the       *)
(* shared temp root.  Times are in hours.                                  *)
(***************************************************************************)
MaxAgeHours == 24   \* maxAge = 24 * 60 * 60 * 1000
MaxSessions == 3    \* session directories under the temp root at the start

\* tempBasePath/session_<i>: a session directory of some manager
SessionDir(i) ==
  [area |-> "temp", dir |-> i, base |-> "session_", pos |-> "", suffix |-> ""]

\* an entry of the temp root that is not a session directory
OtherEntry == [area |-> "temp", dir |-> 0, base |-> "other", pos |-> "", suffix |-> ""]

\* session.startsWith('session_')
IsSessionName(path) == path.area = "temp" /\ path.base = "session_"

\* now - stats.mtime.getTime() > maxAge
IsExpired(fsys, path, time) == time - fsys[path].mtime > MaxAgeHours

\* fs.readdirSync(tempBasePath), taken before the loop: the session
\* directories from index i on, in the order of their names
RECURSIVE SessionsListed(_, _)
SessionsListed(fsys, i) ==
  IF i > MaxSessions THEN <<>>
  ELSE (IF SessionDir(i) \in DOMAIN fsys THEN <<SessionDir(i)>> ELSE <<>>)
       \o SessionsListed(fsys, i + 1)

\* new TempFileManager(): the constructor makes a session directory with a
\* name of its own
ConstructManager(fsys, time) ==
  WriteFile(fsys,
            SessionDir(MaxSessions + 1
                       + Cardinality({q \in DOMAIN fsys :
                                        IsSessionName(q) /\ q.dir > MaxSessions})),
            <<>>, time)

\* the loop of cleanupOldSessions over the listed sessions
RECURSIVE SweepSessions(_, _, _)
SweepSessions(fsys, sessions, time) ==
  IF sessions = <<>> THEN fsys
  ELSE SweepSessions(
         IF IsExpired(fsys, Head(sessions), time)
         THEN RemoveFiles(ConstructManager(fsys, time), {Head(sessions)})
         ELSE fsys,
         Tail(sessions), time)

InitJanitor ==
  /\ now = 2 * MaxAgeHours
  /\ \E present \in SUBSET ({SessionDir(i) : i \in 1..MaxSessions} \cup {OtherEntry}) :
       \E age \in [present -> {1, MaxAgeHours, MaxAgeHours + 1}] :
         fs = [q \in present |-> [body |-> <<>>, mtime |-> now - age[q]]]
  /\ rootExists = TRUE
  /\ appConfig = [forceReprocess |-> FALSE, testMode |-> FALSE]
  /\ projects = <<>>
  /\ phase = "sweep"
  /\ idx = 1
  /\ cycle = 0
  /\ scanInfo = NoScan
  /\ call = NoCall
  /\ extWrites = 0
  /\ throws = 0
  /\ stagings = 0
  /\ cleanRun = 0
  /\ original = fs
  /\ fileHashes = EmptyMap
  /\ pathMapping = EmptyMap
  /\ RulesIdle
  /\ ExecutorIdle
  /\ dirs = {}
  /\ copyQueue = EmptyMap
  /\ tempOp = NoTempOp

\* TempFileManager.cleanupOldSessions()
CleanupOldSessions ==
  /\ phase = "sweep"
  /\ fs' = SweepSessions(fs, SessionsListed(fs, 1), now)
  /\ phase' = "swept"
  /\ tempOp' = [op |-> "sweep"]
  /\ UNCHANGED <<now, rootExists, appConfig, projects, idx, cycle, scanInfo, call,
                 extWrites, throws, stagings, cleanRun, original, fileHashes,
                 pathMapping, dirs, copyQueue>>
  /\ UNCHANGED ruleVars
  /\ UNCHANGED executorVars

NextJanitor == CleanupOldSessions

SpecJanitor == InitJanitor /\ [][NextJanitor]_vars

(***************************************************************************)
(* RuleEngine                                                              *)
(* A rule callable is described by what it does under each invocation      *)
(* shape: "ok" (it returns its RuleResult) or "throw".  The RuleResult     *)
(* records the shape and the arguments the callable saw.                   *)
(* A rule's configuration entry is "absent", "noLogic" (an entry without   *)
(* a logic function), or what its logic does: "true", "false", "throws".   *)
(***************************************************************************)
MaxRules == 3   \* rules discovered in the rules directory
MaxJobs == 2    \* compound jobs of the project handed to the engine

RuleNames == <<"ruleA", "ruleB", "ruleC", "ruleD", "ruleE">>

Behaviours == [onProject : {"ok", "throw"},
               onOperations : {"ok", "throw"},
               onEnhanced : {"ok", "throw"}]

ModernRule == [onProject |-> "ok", onOperations |-> "throw", onEnhanced |-> "ok"]

Predicates == {"absent", "noLogic", "true", "false", "throws"}

\* the calls are recorded whatever they return, so for a callable that
\* accepts the project one behaviour under the later shapes stands for all
Callables == {ModernRule} \cup {b \in Behaviours : b.onProject = "throw"}

\* a rule that does not run is never called: one behaviour stands for all
RuleSetups ==
  [logic : {"true"}, fn : Callables]
  \cup [logic : Predicates \ {"true"}, fn : {ModernRule}]

NullResult == [kind |-> "null"]

RuleValue(ruleName, shape, seen) ==
  [kind |-> "result", ruleName |-> ruleName, status |-> "passed",
   shape |-> shape, seen |-> seen]

ErrorValue(message) == [kind |-> "error", error |-> TRUE, message |-> message]

\* the decision taking a predicate that throws for one that accepts
shouldRunRule_RunsOnThrow(project, ruleName, ruleConfig) ==
  IF ruleConfig = "absent" THEN FALSE
  ELSE IF ruleConfig \in {"true", "false", "throws"}
       THEN ruleConfig \in {"true", "throws"}
       ELSE FALSE

\* the decision falling back to running a rule that has no predicate
shouldRunRule_RunsByDefault(project, ruleName, ruleConfig) ==
  IF ruleConfig = "absent" THEN FALSE
  ELSE IF ruleConfig \in {"true", "false", "throws"}
       THEN (IF ruleConfig = "throws" THEN FALSE ELSE ruleConfig = "true")
       ELSE TRUE

shouldRunRule(project, ruleName, ruleConfig) ==
  IF ruleConfig = "absent" THEN FALSE
  ELSE IF ruleConfig \in {"true", "false", "throws"}
       THEN (IF ruleConfig = "throws" THEN FALSE ELSE ruleConfig = "true")
       ELSE FALSE

RECURSIVE extractOperationsArray(_)
extractOperationsArray(compoundJobs) ==
  IF compoundJobs = <<>> THEN <<>>
  ELSE (IF Head(compoundJobs).isArray THEN Head(compoundJobs).operations ELSE <<>>)
       \o extractOperationsArray(Tail(compoundJobs))

Invocation(ruleName, shape, seen) == [rule |-> ruleName, shape |-> shape, seen |-> seen]

\* executeRule trying the three-argument shape before the operations array
executeRule_EnhancedFirst(project, ruleName, ruleFunction) ==
  LET seen1 == <<"project">>
      seen2 == extractOperationsArray(project.compoundJobs)
      seen3 == <<"project", "compoundJobs", "tools">>
      c1 == <<Invocation(ruleName, 1, seen1)>>
      c2 == c1 \o <<Invocation(ruleName, 3, seen3)>>
      c3 == c2 \o <<Invocation(ruleName, 2, seen2)>>
  IN IF ruleFunction.onProject = "ok"
     THEN [threw |-> FALSE, value |-> RuleValue(ruleName, 1, seen1), calls |-> c1]
     ELSE IF ruleFunction.onEnhanced = "ok"
     THEN [threw |-> FALSE, value |-> RuleValue(ruleName, 3, seen3), calls |-> c2]
     ELSE IF ruleFunction.onOperations = "ok"
     THEN [threw |-> FALSE, value |-> RuleValue(ruleName, 2, seen2), calls |-> c3]
     ELSE [threw |-> TRUE, value |-> [kind |-> "null"], calls |-> c3]

\* threw = TRUE: executeRule throws Error("Rule execution failed with all
\* parameter combinations: ...")
executeRule(project, ruleName, ruleFunction) ==
  LET seen1 == <<"project">>
      seen2 == extractOperationsArray(project.compoundJobs)
      seen3 == <<"project", "compoundJobs", "tools">>
      c1 == <<Invocation(ruleName, 1, seen1)>>
      c2 == c1 \o <<Invocation(ruleName, 2, seen2)>>
      c3 == c2 \o <<Invocation(ruleName, 3, seen3)>>
  IN IF ruleFunction.onProject = "ok"
     THEN [threw |-> FALSE, value |-> RuleValue(ruleName, 1, seen1), calls |-> c1]
     ELSE IF ruleFunction.onOperations = "ok"
     THEN [threw |-> FALSE, value |-> RuleValue(ruleName, 2, seen2), calls |-> c2]
     ELSE IF ruleFunction.onEnhanced = "ok"
     THEN [threw |-> FALSE, value |-> RuleValue(ruleName, 3, seen3), calls |-> c3]
     ELSE [threw |-> TRUE, value |-> NullResult, calls |-> c3]

AllShapesFailed == "Rule execution failed with all parameter combinations"

\* the loop body without its catch clause: a failing rule ends the batch
RunOneRule_Aborts(project, config, rule) ==
  IF shouldRunRule(project, rule.name, config[rule.name])
  THEN LET r == executeRule(project, rule.name, rule.fn)
       IN [value |-> IF r.threw THEN ErrorValue(AllShapesFailed) ELSE r.value,
           calls |-> r.calls, aborted |-> r.threw]
  ELSE [value |-> NullResult, calls |-> <<>>, aborted |-> FALSE]

\* the loop body with a catch clause that stores null for a failed rule
RunOneRule_NullOnError(project, config, rule) ==
  IF shouldRunRule(project, rule.name, config[rule.name])
  THEN LET r == executeRule(project, rule.name, rule.fn)
       IN [value |-> IF r.threw THEN NullResult ELSE r.value,
           calls |-> r.calls, aborted |-> FALSE]
  ELSE [value |-> NullResult, calls |-> <<>>, aborted |-> FALSE]

\* the body of the loop of executeRules for one rule, with its try/catch;
\* aborted tells whether an exception leaves the loop
RunOneRule(project, config, rule) ==
  IF shouldRunRule(project, rule.name, config[rule.name])
  THEN LET r == executeRule(project, rule.name, rule.fn)
       IN [value |-> IF r.threw THEN ErrorValue(AllShapesFailed) ELSE r.value,
           calls |-> r.calls, aborted |-> FALSE]
  ELSE [value |-> NullResult, calls |-> <<>>, aborted |-> FALSE]

RECURSIVE executeRules(_, _, _)
executeRules(project, config, loaded) ==
  IF loaded = <<>> THEN [results |-> EmptyMap, calls |-> <<>>]
  ELSE LET one == RunOneRule(project, config, Head(loaded))
           rest == IF one.aborted THEN [results |-> EmptyMap, calls |-> <<>>]
                   ELSE executeRules(project, config, Tail(loaded))
       IN [results |-> [n \in {Head(loaded).name} \cup DOMAIN rest.results |->
                          IF n = Head(loaded).name THEN one.value ELSE rest.results[n]],
           calls |-> one.calls \o rest.calls]

(***************************************************************************)
(* The RuleEngine on its own.                                              *)
(***************************************************************************)
OperationSeqs == { <<"op1", "op2">>, <<"op3">> }

\* a job whose operations are an array, or are something else
CompoundJobs == [isArray : {TRUE}, operations : OperationSeqs]
                \cup {[isArray |-> FALSE, operations |-> <<"op4">>]}

RuleProjects ==
  UNION {[compoundJobs : [1..n -> CompoundJobs]] : n \in 0..MaxJobs}

PipelineIdle ==
  /\ rootExists = TRUE
  /\ fs = EmptyMap
  /\ appConfig = [forceReprocess |-> FALSE, testMode |-> FALSE]
  /\ now = 0
  /\ projects = <<>>
  /\ idx = 1
  /\ cycle = 0
  /\ scanInfo = NoScan
  /\ call = NoCall
  /\ extWrites = 0
  /\ throws = 0
  /\ stagings = 0
  /\ cleanRun = 0
  /\ original = EmptyMap
  /\ fileHashes = EmptyMap
  /\ pathMapping = EmptyMap

InitRules ==
  /\ PipelineIdle
  /\ phase = "rules"
  /\ \E n \in 0..MaxRules :
       \E setup \in [1..n -> RuleSetups] :
         /\ rules = [i \in 1..n |-> [name |-> RuleNames[i], fn |-> setup[i].fn]]
         /\ rulesConfig = [name \in {RuleNames[i] : i \in 1..Len(RuleNames)} |->
                             IF \E i \in 1..n : RuleNames[i] = name
                             THEN setup[CHOOSE i \in 1..n : RuleNames[i] = name].logic
                             ELSE "absent"]
  /\ ruleProject \in RuleProjects
  /\ results = EmptyMap
  /\ invocations = <<>>
  /\ ruleFiles = <<>>
  /\ ruleOp = NoRuleOp
  /\ TempIdle
  /\ ExecutorIdle

\* ruleEngine.executeRules(project)
ExecuteRules ==
  /\ phase = "rules"
  /\ LET r == executeRules(ruleProject, rulesConfig, rules)
     IN /\ results' = r.results
        /\ invocations' = r.calls
  /\ phase' = "rulesDone"
  /\ UNCHANGED <<rules, rulesConfig, ruleProject, ruleFiles, ruleOp>>
  /\ UNCHANGED <<fs, now, rootExists, appConfig, projects, idx, cycle, scanInfo,
                 call, extWrites, throws, stagings, cleanRun, original,
                 fileHashes, pathMapping>>
  /\ UNCHANGED tempVars
  /\ UNCHANGED executorVars

NextRules == ExecuteRules

SpecRules == InitRules /\ [][NextRules]_vars

(***************************************************************************)
(* Properties of the RuleEngine (checked under SpecRules).                 *)
(***************************************************************************)
LoadedNames == {rules[i].name : i \in 1..Len(rules)}

\* the rule at position i is selected by its predicate
Selected(i) == rulesConfig[rules[i].name] = "true"

\* the rule at position i runs and its callable throws under every shape
FailsEveryShape(i) ==
  /\ Selected(i)
  /\ rules[i].fn = [onProject |-> "throw", onOperations |-> "throw", onEnhanced |-> "throw"]

\* the loaded rules without the one at position i
WithoutRule(i) == SubSeq(rules, 1, i - 1) \o SubSeq(rules, i + 1, Len(rules))

\* the calls made to the callable of the rule at position i, in order
CallsOf(i) ==
  LET Mine(c) == c.rule = rules[i].name
  IN SelectSeq(invocations, Mine)

\* every operation of every compound job whose operations are an array,
\* job by job, gathered from the last job backwards
RECURSIVE AllOperations(_)
AllOperations(jobs) ==
  IF jobs = <<>> THEN <<>>
  ELSE AllOperations(SubSeq(jobs, 1, Len(jobs) - 1))
       \o (IF jobs[Len(jobs)].isArray THEN jobs[Len(jobs)].operations ELSE <<>>)

\* what the callable of a rule is handed under each shape
ShapeArguments(shape) ==
  IF shape = 1 THEN <<"project">>
  ELSE IF shape = 2 THEN AllOperations(ruleProject.compoundJobs)
  ELSE <<"project", "compoundJobs", "tools">>

\* the first shape the callable accepts, 4 if it accepts none
FirstAccepted(fn) ==
  IF fn.onProject = "ok" THEN 1
  ELSE IF fn.onOperations = "ok" THEN 2
  ELSE IF fn.onEnhanced = "ok" THEN 3 ELSE 4

\* C1: executeRules returns exactly one key per loaded rule; a rule whose
\* callable throws under all three shapes gets an {error: true, message}
\* record in its own slot, and every other rule's slot holds what it would
\* hold if the failing rule were not loaded.
C1_OneSlotPerRule ==
  phase = "rulesDone" =>
    /\ DOMAIN results = LoadedNames
    /\ \A i \in 1..Len(rules) :
         FailsEveryShape(i) =>
           /\ results[rules[i].name].kind = "error"
           /\ results[rules[i].name].error = TRUE
           /\ results[rules[i].name].message = AllShapesFailed
           /\ \A j \in 1..Len(rules) :
                j # i =>
                  results[rules[j].name] =
                    executeRules(ruleProject, rulesConfig, WithoutRule(i)).results[rules[j].name]

\* three rules, the second throwing under every shape, the first and the
\* third with a normal result
C1_Witness ==
  /\ phase = "rulesDone"
  /\ Len(rules) = 3
  /\ FailsEveryShape(2)
  /\ results["ruleB"].kind = "error"
  /\ results["ruleA"].kind = "result"
  /\ results["ruleC"].kind = "result"

\* C8: executeRule calls the rule with (project), then with the flattened
\* array of all operations, then with (project, compoundJobs, tools), in
\* that order, a later shape only when every earlier one threw, and the
\* value it returns is the value of the first shape that did not throw.
C8_ShapeOrder ==
  phase = "rulesDone" =>
    \A i \in 1..Len(rules) :
      Selected(i) =>
        LET first == FirstAccepted(rules[i].fn)
            tried == IF first = 4 THEN 3 ELSE first
            mine == CallsOf(i)
        IN /\ Len(mine) = tried
           /\ \A k \in 1..tried :
                /\ mine[k].shape = k
                /\ mine[k].seen = ShapeArguments(k)
           /\ first # 4 =>
                results[rules[i].name] =
                  RuleValue(rules[i].name, first, ShapeArguments(first))

\* a selected rule that accepts only the flattened operations array, called
\* on a project with operations in two jobs, gives its result
C8_Witness ==
  /\ phase = "rulesDone"
  /\ \E i \in 1..Len(rules) :
       /\ Selected(i)
       /\ rules[i].fn = [onProject |-> "throw", onOperations |-> "ok", onEnhanced |-> "throw"]
       /\ Len(CallsOf(i)) = 2
       /\ results[rules[i].name].kind = "result"
       /\ results[rules[i].name].shape = 2
       /\ results[rules[i].name].seen = <<"op3", "op1", "op2">>

Analyzed == phase = "analyzed" /\ call.path # NoPath

\* the text of the descriptor after sanitizeJsonContent: what stage 1 parses
Stage1Text == sanitizeJsonContent(call.text)

\* the text after both replacements: what stage 2 parses
Stage2Text == RemoveControlCharacters(RemoveTrailingCommas(Stage1Text))

\* the descriptor was read and held some text
TextRead == call.text # Absent /\ call.text # <<>>

FixedPathOfCall == getFixedFilePath(projects[1])

\* the fixed artifact exists and holds the serialisation of value
FixedHolds(value) ==
  /\ FixedPathOfCall \in DOMAIN fs
  /\ fs[FixedPathOfCall].body = JsonStringify(value)

\* C6: the ladder is applied in strict order: the direct parse decides when
\* it succeeds; the parse of the text stripped of trailing commas and
\* control characters is used only when the direct parse failed; when both
\* fail the status is analysis_failed and no fixed artifact is written.
C6_RepairLadderOrder ==
  (Analyzed /\ TextRead) =>
    /\ (JsonParse(Stage1Text).ok /\ JsonParse(Stage1Text).truthy) =>
         /\ call.status = "analyzed"
         /\ FixedHolds(JsonParse(Stage1Text))
    /\ (~JsonParse(Stage1Text).ok /\ JsonParse(Stage2Text).ok
        /\ JsonParse(Stage2Text).truthy) =>
         /\ call.status = "analyzed"
         /\ FixedHolds(JsonParse(Stage2Text))
    /\ (~JsonParse(Stage1Text).ok /\ ~JsonParse(Stage2Text).ok) =>
         /\ call.status = "analysis_failed"
         /\ FixedPathOfCall \notin DOMAIN fs
         /\ call.log = <<>>
         /\ fs = original

\* an unterminated string fails both parses: analysis_failed, nothing written
C6_Witness ==
  /\ Analyzed
  /\ call.text = <<"{", "q", "}">>
  /\ call.status = "analysis_failed"
  /\ FixedPathOfCall \notin DOMAIN fs

\* a text with a trailing comma is repaired at the second stage only
C6_WitnessRepaired ==
  /\ Analyzed
  /\ call.text = <<"{", "p", ",", "}">>
  /\ call.status = "analyzed"
  /\ FixedHolds(JsonParse(<<"{", "p", "}">>))

\* C7: whenever the text parses at the first or at the second stage the
\* status is analyzed and the fixed artifact holds the parsed structure, and
\* analyzed is never set without the artifact.
C7_ParsedMeansAnalyzed ==
  Analyzed =>
    /\ (TextRead /\ JsonParse(Stage1Text).ok) =>
         /\ call.status = "analyzed"
         /\ FixedHolds(JsonParse(Stage1Text))
    /\ (TextRead /\ ~JsonParse(Stage1Text).ok /\ JsonParse(Stage2Text).ok) =>
         /\ call.status = "analyzed"
         /\ FixedHolds(JsonParse(Stage2Text))
    /\ call.status = "analyzed" => FixedPathOfCall \in DOMAIN fs

\* the descriptor holds the JSON text null: it parses at the first stage and
\* the project is marked analysis_failed with no artifact
C7_FalsyValueRejected ==
  /\ Analyzed
  /\ call.text = <<"null">>
  /\ JsonParse(Stage1Text).ok
  /\ call.status = "analysis_failed"
  /\ FixedPathOfCall \notin DOMAIN fs

(***************************************************************************)
(* Properties of the scan cycle (checked under Spec).                      *)
(***************************************************************************)
FinalStatuses == {"completed", "analysis_failed", "failed", "fatal_error"}

\* processProject has been called in this cycle; call describes the last call
Called == call.status # "none"

ResultPathOfCall == [call.path EXCEPT !.suffix = "_BRK_result"]

MarkerPathOfCall == [call.path EXCEPT !.suffix = "_BRK_fatal"]

\* how many times the call wrote path
TimesWritten(path) ==
  LET Same(q) == q = path
  IN Len(SelectSeq(call.log, Same))

C3_SourcesUntouched ==
  /\ \A q \in DOMAIN original : q \in DOMAIN fs /\ fs[q] = original[q]
  /\ \A q \in DOMAIN fs :
       (q.area = "source" /\ q.suffix = "") => q \in DOMAIN original

\* a cycle that staged a descriptor, wrote its fixed and result artifacts and
\* cleaned the session directory up
C3_Witness ==
  /\ phase = "scan"
  /\ cycle >= 1
  /\ stagings >= 1
  /\ SessionFiles(fs) = {}
  /\ \E q \in DOMAIN original :
       /\ [q EXCEPT !.suffix = "_BRK_fixed"] \in DOMAIN fs
       /\ [q EXCEPT !.suffix = "_BRK_result"] \in DOMAIN fs
       /\ fs[q] = original[q]

C4_FatalWithoutResult ==
  /\ Called
  /\ call.thrown.msg = "JSON"
  /\ call.status = "fatal_error"
  /\ call.saves = 0
  /\ ResultPathOfCall \notin DOMAIN fs

C10_FatalStaysSkipped ==
  \A i \in 1..Len(projects) :
    projects[i].status = "ready" => ~hasFatalErrors(fs, projects[i])

\* a scan with forceReprocess set that left out a loadable descriptor marked
\* fatal in the cycle before
C10_Witness ==
  /\ appConfig.forceReprocess
  /\ cycle = 2
  /\ phase = "process"
  /\ \E q \in DOMAIN original :
       /\ [q EXCEPT !.suffix = "_BRK_fatal"] \in DOMAIN fs
       /\ JsonParse(sanitizeJsonContent(fs[q].body)).truthy
       /\ \A i \in 1..Len(projects) : projects[i].jsonFilePath # q

\* the project the last call of processProject was made on
ProjectOfCall == projects[idx - 1]

C12_WitnessFailed ==
  /\ phase = "process"
  /\ call.thrown = [at |-> "analyze", msg |-> "other"]
  /\ call.status = "failed"
  /\ fs[ResultPathOfCall].body = ResultText("empty")

\* the artifact with the given suffix that belongs to descriptor d
ArtifactOf(d, suffix) == [DescriptorPath(d) EXCEPT !.suffix = suffix]

\* an earlier pass has handled descriptor d: it left a fixed artifact, a
\* result artifact or a fatal marker next to it
Handled(d) ==
  /\ DescriptorPath(d) \in DOMAIN fs
  /\ \E suffix \in {"_BRK_fixed", "_BRK_result", "_BRK_fatal"} :
       ArtifactOf(d, suffix) \in DOMAIN fs

\* no result artifact of d, or the descriptor is newer than it
ResultMissingOrStale(d) ==
  \/ ArtifactOf(d, "_BRK_result") \notin DOMAIN fs
  \/ fs[DescriptorPath(d)].mtime > fs[ArtifactOf(d, "_BRK_result")].mtime

\* the descriptor's text, sanitized, parses to a JSON object or array
Loadable(d) ==
  /\ JsonParse(sanitizeJsonContent(fs[DescriptorPath(d)].body)).ok
  /\ JsonParse(sanitizeJsonContent(fs[DescriptorPath(d)].body)).truthy

\* the step is a performScan over an existing scan root
ScanStep == phase = "scan" /\ phase' = "process" /\ rootExists

\* the scan emits descriptor d as a ready project
EmittedByScan(d) ==
  \E i \in 1..Len(projects') :
    /\ projects'[i].jsonFilePath = DescriptorPath(d)
    /\ projects'[i].status = "ready"

C13_ForcedButFatal ==
  /\ cycle = 2
  /\ phase = "process"
  /\ idx = 1
  /\ appConfig.forceReprocess
  /\ \E d \in Descriptors :
       /\ ArtifactOf(d, "_BRK_fatal") \in DOMAIN fs
       /\ DescriptorPath(d) \in DOMAIN fs
       /\ \A i \in 1..Len(projects) :
            projects[i].jsonFilePath # DescriptorPath(d)

\* the name carries the reserved marker of a fixed or a result artifact
GeneratedArtifact(path) == path.suffix \in {"_BRK_fixed", "_BRK_result"}

\* C20: in every cycle, a fixed or result artifact is never among the files
\* findAllJsonFiles returns and never the JSON file of a Project.
C20_NoFeedback ==
  /\ \A i \in 1..Len(findAllJsonFiles(fs)) :
       ~GeneratedArtifact(findAllJsonFiles(fs)[i].fullPath)
  /\ \A i \in 1..Len(projects) : ~GeneratedArtifact(projects[i].jsonFilePath)

\* the second scan over a tree that holds a fixed and a result artifact has
\* emitted a project
C20_Witness ==
  /\ cycle = 2
  /\ phase = "process"
  /\ projects # <<>>
  /\ \E q \in DOMAIN fs : q.suffix = "_BRK_fixed"
  /\ \E q \in DOMAIN fs : q.suffix = "_BRK_result"
  /\ Len(findAllJsonFiles(fs)) < Cardinality(DOMAIN fs)

\* every path of the sequence lies under the session directory
AllUnderSession(paths) == \A i \in 1..Len(paths) : paths[i].area = "session"

\* C17 as stated: every file or directory the pipeline creates or modifies
\* lies under the session directory; nothing under the scan root is written.
C17_WritesUnderSession ==
  /\ AllUnderSession(scanInfo.log)
  /\ AllUnderSession(call.log)
  /\ \A q \in DOMAIN fs : q.area # "session" => q \in DOMAIN original

\* performScan has created the missing scan root itself
C17_ScanRootCreated ==
  /\ phase = "process"
  /\ scanInfo.log = <<RootPath>>
  /\ RootPath.area = "source"
  /\ rootExists

\* processProject has written a fixed and a result artifact beside the
\* descriptor under the scan root
C17_ArtifactsBesideSource ==
  /\ Called
  /\ call.log = <<[call.path EXCEPT !.suffix = "_BRK_fixed"], ResultPathOfCall>>
  /\ call.path.area = "source"
  /\ ResultPathOfCall \in DOMAIN fs

(***************************************************************************)
(* Properties of processProject on its own (checked under SpecProcess).    *)
(***************************************************************************)
\* processProject has returned from its call on the one project
CalledAlone == phase = "called"

\* the position of the first occurrence of status in the statuses the call
\* assigned, 0 when it was never assigned
RECURSIVE FirstAt(_, _, _)
FirstAt(trace, status, k) ==
  IF k > Len(trace) THEN 0
  ELSE IF trace[k] = status THEN k ELSE FirstAt(trace, status, k + 1)

\* status was assigned before completed was
BeforeCompleted(status) ==
  /\ FirstAt(call.trace, status, 1) > 0
  /\ FirstAt(call.trace, status, 1) < FirstAt(call.trace, "completed", 1)

\* C11 as stated: in every call of processProject completed is preceded by
\* analyzed, and never follows analysis_failed or fatal_error.
C11_AnalyzedBeforeCompleted ==
  (CalledAlone /\ call.status = "completed") =>
    /\ BeforeCompleted("analyzed")
    /\ ~BeforeCompleted("analysis_failed")
    /\ ~BeforeCompleted("fatal_error")

\* what processProject does keep to: for a project that names a JSON file
\* completed is preceded by analyzed; a project without a JSON file is left
\* unanalyzed and goes from ready to completed; completed never follows
\* analysis_failed or fatal_error, and a call that assigned one of these
\* does not end completed.
C11_AnalyzedBeforeCompletedWithFile ==
  CalledAlone =>
    /\ (call.status = "completed" /\ call.path # NoPath) =>
         call.trace = <<"analyzed", "completed">>
    /\ (call.status = "completed" /\ call.path = NoPath) =>
         call.trace = <<"completed">>
    /\ FirstAt(call.trace, "completed", 1) > 0 =>
         /\ call.status = "completed"
         /\ ~BeforeCompleted("analysis_failed")
         /\ ~BeforeCompleted("fatal_error")
    /\ (FirstAt(call.trace, "analysis_failed", 1) > 0
        \/ FirstAt(call.trace, "fatal_error", 1) > 0) =>
         call.status # "completed"

\* a project with a parseable JSON file: analyzed, then completed
C11_Witness ==
  /\ CalledAlone
  /\ call.path # NoPath
  /\ call.text = <<"{", "p", "}">>
  /\ call.trace = <<"analyzed", "completed">>
  /\ call.status = "completed"

\* a project without a JSON file: completed, never analyzed
C11_CompletedUnanalyzed ==
  /\ CalledAlone
  /\ call.path = NoPath
  /\ call.status = "completed"
  /\ FirstAt(call.trace, "analyzed", 1) = 0

(***************************************************************************)
(* Properties of the TempFileManager (checked under SpecTemp).             *)
(***************************************************************************)
\* the last call on the TempFileManager was detectChanges
Detected == tempOp.op = "detect"

\* the paths detectChanges was given, or took from fileHashes
CheckedPaths == {tempOp.pathsToCheck[i] : i \in 1..Len(tempOp.pathsToCheck)}

ChangedPaths ==
  {tempOp.changes.changedFiles[i].path : i \in 1..Len(tempOp.changes.changedFiles)}

NewPaths == {tempOp.changes.newFiles[i] : i \in 1..Len(tempOp.changes.newFiles)}

DeletedPaths ==
  {tempOp.changes.deletedFiles[i] : i \in 1..Len(tempOp.changes.deletedFiles)}

\* the path is tracked and still exists in the source tree
TrackedAndPresent(path) == path \in DOMAIN fileHashes /\ path \in DOMAIN fs

\* the content recorded at staging: what the staged copy holds
StagedBody(path) == fs[fileHashes[path].tempPath].body

\* C14: detectChanges lists a tracked, existing file in changedFiles when
\* its content and its mtime both differ from what staging recorded, and
\* does not list it when its content is the recorded one, whatever its mtime.
C14_ChangedMeansNewContent ==
  Detected =>
    \A path \in CheckedPaths :
      TrackedAndPresent(path) =>
        /\ (/\ fs[path].body # StagedBody(path)
            /\ fs[path].mtime # fileHashes[path].mtime) => path \in ChangedPaths
        /\ fs[path].body = StagedBody(path) => path \notin ChangedPaths

\* a staged file was rewritten with the content it had: its mtime moved,
\* detectChanges does not list it
C14_Witness ==
  /\ Detected
  /\ \E path \in CheckedPaths :
       /\ TrackedAndPresent(path)
       /\ fs[path].body = StagedBody(path)
       /\ fs[path].mtime > fileHashes[path].mtime
       /\ path \notin ChangedPaths
       /\ ~tempOp.changes.hasChanges

\* a staged file was rewritten with other content: detectChanges lists it
C14_WitnessChanged ==
  /\ Detected
  /\ \E path \in CheckedPaths :
       /\ TrackedAndPresent(path)
       /\ fs[path].body # StagedBody(path)
       /\ fs[path].mtime > fileHashes[path].mtime
       /\ path \in ChangedPaths

\* C15: detectChanges puts each checked path in at most one of the three
\* lists; an untracked path that exists is new, a tracked path that is
\* missing is deleted; hasChanges is true exactly when a list is non-empty.
C15_ListsDisjointAndFlagged ==
  Detected =>
    /\ ChangedPaths \cap NewPaths = {}
    /\ ChangedPaths \cap DeletedPaths = {}
    /\ NewPaths \cap DeletedPaths = {}
    /\ ChangedPaths \cup NewPaths \cup DeletedPaths \subseteq CheckedPaths
    /\ \A path \in CheckedPaths :
         /\ (path \in DOMAIN fs /\ path \notin DOMAIN fileHashes) => path \in NewPaths
         /\ (path \in DOMAIN fileHashes /\ path \notin DOMAIN fs) =>
              path \in DeletedPaths
    /\ tempOp.changes.hasChanges <=>
         (\/ tempOp.changes.changedFiles # <<>>
          \/ tempOp.changes.newFiles # <<>>
          \/ tempOp.changes.deletedFiles # <<>>)

\* detectChanges over given paths has found a new file, a deleted tracked
\* file and a path that neither exists nor is tracked
C15_Witness ==
  /\ Detected
  /\ tempOp.given
  /\ NewPaths # {}
  /\ \E path \in DeletedPaths : path \in DOMAIN fileHashes
  /\ \E path \in DeletedPaths : path \notin DOMAIN fileHashes
  /\ tempOp.changes.hasChanges

\* the last call on the TempFileManager was cleanup
CleanedUp == tempOp.op = "cleanup"

\* the path lies outside the session directory
OutsideSession(path) == path.area = "source"

DirectoryCopyFailed ==
  /\ tempOp.op = "copy"
  /\ IsDirectory(tempOp.source)
  /\ tempOp.threw

\* the copy of item k the call was to make
CopyOfItem(k) == [tempOp.items[k] EXCEPT !.area = StagedAreas[tempOp.top + 1]]

\* the file is tracked with the copy the call made of it
StagedAndTracked(k) ==
  /\ CopyOfItem(k) \in DOMAIN fs
  /\ fs[CopyOfItem(k)].body = fs[tempOp.items[k]].body
  /\ tempOp.items[k] \in DOMAIN fileHashes
  /\ fileHashes[tempOp.items[k]].tempPath = CopyOfItem(k)
  /\ fileHashes[tempOp.items[k]].mtime = fs[tempOp.items[k]].mtime
  /\ CopyOfItem(k) \in DOMAIN pathMapping
  /\ pathMapping[CopyOfItem(k)] = tempOp.items[k]

\* the call made no copy of the file and gave it no tracking entry: what was
\* there before the call is all there is
LeftAsBefore(k) ==
  /\ tempOp.items[k] \in DOMAIN fileHashes <=>
       tempOp.items[k] \in DOMAIN tempOp.before.fileHashes
  /\ tempOp.items[k] \in DOMAIN fileHashes =>
       fileHashes[tempOp.items[k]] = tempOp.before.fileHashes[tempOp.items[k]]
  /\ CopyOfItem(k) \in DOMAIN fs <=> CopyOfItem(k) \in DOMAIN tempOp.before.fs
  /\ CopyOfItem(k) \in DOMAIN fs =>
       fs[CopyOfItem(k)] = tempOp.before.fs[CopyOfItem(k)]
  /\ CopyOfItem(k) \in DOMAIN pathMapping <=>
       CopyOfItem(k) \in DOMAIN tempOp.before.pathMapping

\* C18: when copyToTemp fails at a file of a folder it throws and rolls
\* nothing back: the files before it are staged and tracked, the failing
\* file and those after it are given no tracking entry.
C18_PartialStagingKept ==
  DirectoryCopyFailed =>
    \A k \in 1..Len(tempOp.items) :
      IF k < tempOp.failAt THEN StagedAndTracked(k) ELSE LeftAsBefore(k)

\* a fresh session: the copy of a folder with three files failed at the
\* second, the first is tracked, the other two are not
C18_Witness ==
  /\ DirectoryCopyFailed
  /\ Len(tempOp.items) = 3
  /\ tempOp.failAt = 2
  /\ tempOp.before.fileHashes = EmptyMap
  /\ DOMAIN fileHashes = {tempOp.items[1]}
  /\ StagedAndTracked(1)

(***************************************************************************)
(* Properties of the sweep over the temp root (checked under SpecJanitor). *)
(***************************************************************************)
\* cleanupOldSessions has returned; original is the temp root it found
Swept == phase = "swept"

\* the session directories of a temp root
SessionsIn(fsys) == {q \in DOMAIN fsys : q.area = "temp" /\ q.base = "session_"}

\* the session directories last modified more than 24 hours before the sweep
ExpiredIn(fsys) == {q \in SessionsIn(fsys) : now - fsys[q].mtime > 24}

\* C19 as stated: after the sweep the session directories are those found
\* before it minus the expired ones: none younger removed, none added.
C19_ExactlyExpiredRemoved ==
  Swept => SessionsIn(fs) = SessionsIn(original) \ ExpiredIn(original)

\* what the sweep does keep to: every expired session directory is gone,
\* every younger one and every other entry is there as it was
C19_ExpiredGoneOthersKept ==
  Swept =>
    /\ \A q \in ExpiredIn(original) : q \notin DOMAIN fs
    /\ \A q \in (DOMAIN original) \ ExpiredIn(original) :
         q \in DOMAIN fs /\ fs[q] = original[q]

\* the sweep found an expired session next to one exactly 24 hours old and
\* left a session directory behind that was not there before
C19_SessionAdded ==
  /\ Swept
  /\ ExpiredIn(original) # {}
  /\ \E q \in SessionsIn(original) : now - original[q].mtime = 24 /\ q \in DOMAIN fs
  /\ \E q \in SessionsIn(fs) : q \notin DOMAIN original /\ fs[q].mtime = now

(***************************************************************************)
(* Scanner.performScan on its own, as the API route and the tests call it: *)
(* one call on a fresh Scanner over a tree in which a directory may be     *)
(* unreadable and the handling of one descriptor may throw, followed by    *)
(* the loop over the projects it left.                                     *)
(***************************************************************************)
\* an NC program file in folder k
ProgramPath(k) ==
  [area |-> "source", dir |-> k, base |-> "O0001", pos |-> "", suffix |-> ".h"]

\* the first argument of performScan: none, an operator name, or the path
\* of the scan root as integration.test.js and POST /api/projects/scan pass it
ScanArguments == {"none", "op1", "scanRoot"}

\* what goes wrong during a call: at most one directory whose readdirSync
\* throws (0 is the root), and at most one descriptor whose handling
\* throws, before the push or in the logInfo after it
ScanFaults(fsys) ==
  {[unreadable |-> u, path |-> p, at |-> a] :
     u \in {{}, {0}, {1}, {2}},
     p \in StagedPaths \cap DOMAIN fsys,
     a \in {"beforePush", "afterPush"}}
  \cup {[unreadable |-> u, path |-> NoPath, at |-> "none"] : u \in {{}, {0}, {1}, {2}}}

\* scanDirectory(rootPath): the .json entries of the directories that can
\* be read, in the order of the walk; the catch skips an unreadable one
scanDirectory(fsys, unreadable) ==
  IF 0 \in unreadable THEN <<>>
  ELSE SelectSeq(ItemsBelow(fsys, 0, 1, 1), LAMBDA path : path.dir \notin unreadable)

\* the loop over the descriptors ending at the descriptor that throws
RECURSIVE ScanGroups_Aborts(_, _, _, _, _)
ScanGroups_Aborts(fsys, config, operatorFilter, files, fault) ==
  IF files = <<>> THEN <<>>
  ELSE IF Head(files).fullPath = fault.path
       THEN (IF fault.at = "beforePush" THEN <<>>
             ELSE ScanOne(fsys, config, operatorFilter, Head(files)))
       ELSE ScanOne(fsys, config, operatorFilter, Head(files))
            \o ScanGroups_Aborts(fsys, config, operatorFilter, Tail(files), fault)

\* the loop over the groups and their descriptors, each descriptor in a
\* try block of its own: a throw is logged and the loop goes on
RECURSIVE ScanGroups(_, _, _, _, _)
ScanGroups(fsys, config, operatorFilter, files, fault) ==
  IF files = <<>> THEN <<>>
  ELSE (IF Head(files).fullPath = fault.path /\ fault.at = "beforePush"
        THEN <<>>
        ELSE ScanOne(fsys, config, operatorFilter, Head(files)))
       \o ScanGroups(fsys, config, operatorFilter, Tail(files), fault)

\* performScan(operatorFilter): the projects it pushes, the files
\* findAllJsonFiles gave it, and the value it returns
performScan(fsys, config, exists, operatorFilter, fault) ==
  IF ~exists
  THEN [projects |-> <<>>, files |-> <<>>, returned |-> "emptyArray"]
  ELSE IF CollectJsonFiles(scanDirectory(fsys, fault.unreadable)) = <<>>
  THEN [projects |-> <<>>, files |-> <<>>, returned |-> "undefined"]
  ELSE [projects |->
          ScanGroups(fsys, config, operatorFilter,
                     groupJsonFilesByProject(
                       CollectJsonFiles(scanDirectory(fsys, fault.unreadable))),
                     fault),
        files |-> CollectJsonFiles(scanDirectory(fsys, fault.unreadable)),
        returned |-> "undefined"]

\* the trees the call runs over: descriptors and NC program files
ScanTrees ==
  {[path \in {DescriptorPath(d) : d \in present} \cup {ProgramPath(k) : k \in programs}
      |-> [body |-> <<"{", "p", "}">>, mtime |-> 0]] :
     present \in SUBSET (1..NumStaged), programs \in SUBSET {1, 2}}

InitScan ==
  /\ rootExists \in BOOLEAN
  /\ fs \in IF rootExists THEN ScanTrees ELSE {EmptyMap}
  /\ appConfig \in [forceReprocess : {FALSE},
                    testMode : IF rootExists THEN {FALSE} ELSE BOOLEAN]
  /\ now = 0
  /\ projects = <<>>
  /\ phase = "scan"
  /\ idx = 1
  /\ cycle = 0
  /\ scanInfo = NoScan
  /\ call = NoCall
  /\ extWrites = 0
  /\ throws = 0
  /\ stagings = 0
  /\ cleanRun = 0
  /\ original = fs
  /\ fileHashes = EmptyMap
  /\ pathMapping = EmptyMap
  /\ RulesIdle
  /\ ExecutorIdle
  /\ TempIdle

\* the call returning r
ScanReturned(r, operatorFilter, fault) ==
  /\ projects' = projects \o r.projects
  /\ scanOp' = [op |-> "performScan",
                operatorFilter |-> operatorFilter,
                fault |-> fault,
                files |-> r.files,
                returned |-> r.returned,
                propagated |-> FALSE]
  /\ scanInfo' = [emitted |-> Len(r.projects),
                  log |-> IF ~rootExists /\ ~appConfig.testMode
                          THEN <<RootPath>> ELSE <<>>]

\* scanner.performScan(argument) on a Scanner just constructed
ScanCall ==
  /\ phase = "scan"
  /\ \E operatorFilter \in ScanArguments, fault \in ScanFaults(fs) :
       ScanReturned(performScan(fs, appConfig, rootExists, operatorFilter, fault),
                    operatorFilter, fault)
  /\ rootExists' = (rootExists \/ ~appConfig.testMode)           \* mkdirSync
  /\ phase' = "process"
  /\ idx' = 1
  /\ cycle' = cycle + 1
  /\ UNCHANGED <<fs, now, appConfig, call, extWrites, throws, stagings, cleanRun,
                 original, fileHashes, pathMapping, isRunning, waiting>>
  /\ UNCHANGED activationVars
  /\ UNCHANGED ruleVars
  /\ UNCHANGED tempVars

NextScan == ScanCall \/ ProcessProject

SpecScan == InitScan /\ [][NextScan]_vars

(***************************************************************************)
(* The names of the descriptors: extractProjectInfoFromPath applied to     *)
(* file names given character by character, and the grouping of the        *)
(* results by their key.                                                   *)
(***************************************************************************)
\* file names put together from a prefix, four digits, two letters, a
\* number, a position and an extension, each right or wrong for the pattern
FileNames ==
  {prefix \o year \o letters \o number \o position \o extension :
     prefix \in {<<"W">>, <<"X">>},
     year \in {<<"1", "2", "3", "4">>, <<"1", "2", "3">>},
     letters \in {<<"A", "B">>, <<"A", "b">>},
     number \in {<<"0", "1">>, <<"0", "1", "0", "0", "3">>, <<"0">>},
     position \in {<<>>, <<"A">>, <<"B">>, <<"a">>, <<"A", "B">>},
     extension \in {<<".", "j", "s", "o", "n">>, <<".", "t", "x", "t">>}}

\* the names a second file of the same scan has
OtherFileNames ==
  {<<"W", "1", "2", "3", "4", "A", "B", "0", "1">> \o position
     \o <<".", "j", "s", "o", "n">> : position \in {<<>>, <<"A">>, <<"B">>}}

\* \d{2,} from place k on: the number of digits it takes
RECURSIVE DigitRun(_, _)
DigitRun(fileName, k) ==
  IF k <= Len(fileName)
     /\ fileName[k] \in {"0", "1", "2", "3", "4", "5", "6", "7", "8", "9"}
  THEN 1 + DigitRun(fileName, k + 1)
  ELSE 0

\* fileName.match(/^(W\d{4}[A-Z]{2}\d{2,})([A-Z]?)\.json$/); n is the
\* number of digits after the two letters
MatchName(fileName, n) ==
  LET upper == {"A", "B", "C", "D", "E", "F", "G", "H", "I", "J", "K", "L", "M",
                "N", "O", "P", "Q", "R", "S", "T", "U", "V", "W", "X", "Y", "Z"}
      letter == 8 + n <= Len(fileName) /\ fileName[8 + n] \in upper
      rest == SubSeq(fileName, IF letter THEN 9 + n ELSE 8 + n, Len(fileName))
  IN [ok |-> /\ Len(fileName) >= 7
             /\ fileName[1] = "W"
             /\ \A k \in 2..5 : fileName[k] \in {"0", "1", "2", "3", "4", "5", "6", "7", "8", "9"}
             /\ \A k \in 6..7 : fileName[k] \in upper
             /\ n >= 2
             /\ rest = <<".", "j", "s", "o", "n">>,
      base |-> SubSeq(fileName, 1, 7 + n),
      letter |-> IF letter THEN <<fileName[8 + n]>> ELSE <<>>]

\* extractProjectInfoFromPath keeping an absent position letter absent
extractProjectInfoFromName_NoDefault(fileName, match) ==
  IF ~match.ok THEN [fileName |-> fileName, projectName |-> "null"]
  ELSE [fileName |-> fileName,
        projectBase |-> match.base,
        position |-> match.letter,
        projectName |-> match.base \o match.letter]

\* extractProjectInfoFromPath(fullPath, fileName), match being the result
\* of the pattern match; "null" stands for the null it returns
extractProjectInfoFromName(fileName, match) ==
  IF ~match.ok THEN [fileName |-> fileName, projectName |-> "null"]
  ELSE LET position == IF match.letter = <<>> THEN <<"A">> ELSE match.letter
       IN [fileName |-> fileName,
           projectBase |-> match.base,
           position |-> position,
           projectName |-> match.base \o position]

\* findAllJsonFiles pushes the file infos that are not null
RECURSIVE NonNull(_)
NonNull(infos) ==
  IF infos = <<>> THEN <<>>
  ELSE (IF Head(infos).projectName = "null" THEN <<>> ELSE <<Head(infos)>>)
       \o NonNull(Tail(infos))

InitNames ==
  /\ PipelineIdle
  /\ phase = "names"
  /\ RulesIdle
  /\ TempIdle
  /\ isRunning = FALSE
  /\ waiting = <<>>
  /\ autorun = TRUE
  /\ activations = <<>>
  /\ requests = <<>>
  /\ scanOp \in {[op |-> "none", fileNames |-> <<first, second>>] :
                   first \in FileNames, second \in OtherFileNames}

\* the two names are matched, and the file infos grouped by their key
GroupNames ==
  /\ phase = "names"
  /\ scanOp.op = "none"
  /\ scanOp' =
       [op |-> "groupJsonFilesByProject",
        fileNames |-> scanOp.fileNames,
        infos |-> [i \in 1..2 |->
                     extractProjectInfoFromName(
                       scanOp.fileNames[i],
                       MatchName(scanOp.fileNames[i], DigitRun(scanOp.fileNames[i], 8)))],
        grouped |->
          groupJsonFilesByProject(NonNull(
            [i \in 1..2 |->
               extractProjectInfoFromName(
                 scanOp.fileNames[i],
                 MatchName(scanOp.fileNames[i], DigitRun(scanOp.fileNames[i], 8)))]))]
  /\ UNCHANGED pipelineVars
  /\ UNCHANGED ruleVars
  /\ UNCHANGED tempVars
  /\ UNCHANGED <<isRunning, waiting>>
  /\ UNCHANGED activationVars

SpecNames == InitNames /\ [][GroupNames]_vars

(***************************************************************************)
(* Rule discovery: new RuleEngine() loading the modules of the rules       *)
(* directory.                                                              *)
(***************************************************************************)
\* what require() gives for a file of the rules directory: it throws, or
\* the module is a function ("f0"), an object with the listed values under
\* its keys (functions "f1", "f2", anything else "data"), null or a string;
\* "notJs" is a file whose name does not end with .js
RuleModules ==
  [kind : {"throws", "function", "null", "string", "notJs"}, keys : {<<>>}]
  \cup [kind : {"object"},
        keys : UNION {[1..n -> {"data", "f1", "f2"}] : n \in 0..2}]

\* extractRuleFunction(ruleModule): the function found, or "null"
extractRuleFunction(ruleModule) ==
  IF ruleModule.kind = "function" THEN "f0"
  ELSE IF ruleModule.kind = "object"
       THEN LET functionKeys == SelectSeq(ruleModule.keys, LAMBDA v : v # "data")
            IN IF Len(functionKeys) = 1 THEN functionKeys[1]
               ELSE IF Len(functionKeys) > 1 THEN functionKeys[1]
               ELSE "null"
       ELSE "null"

\* the loop over the files given up at the first module that fails to load
RECURSIVE loadRules_StopsAtFailure(_)
loadRules_StopsAtFailure(files) ==
  IF files = <<>> THEN <<>>
  ELSE IF Head(files).module.kind = "notJs" THEN loadRules_StopsAtFailure(Tail(files))
  ELSE IF Head(files).module.kind = "throws" THEN <<>>
  ELSE (IF extractRuleFunction(Head(files).module) # "null"
        THEN <<[name |-> Head(files).name, fn |-> extractRuleFunction(Head(files).module)]>>
        ELSE <<>>)
       \o loadRules_StopsAtFailure(Tail(files))

\* loadRules: the entries rules.set has made after the loop over the .js
\* files, each file in a try block of its own
RECURSIVE loadRules(_)
loadRules(files) ==
  IF files = <<>> THEN <<>>
  ELSE (IF /\ Head(files).module.kind \notin {"notJs", "throws"}
           /\ extractRuleFunction(Head(files).module) # "null"
        THEN <<[name |-> Head(files).name, fn |-> extractRuleFunction(Head(files).module)]>>
        ELSE <<>>)
       \o loadRules(Tail(files))

InitLoad ==
  /\ PipelineIdle
  /\ phase = "load"
  /\ TempIdle
  /\ ExecutorIdle
  /\ rules = <<>>
  /\ rulesConfig = EmptyMap
  /\ ruleProject = <<>>
  /\ results = EmptyMap
  /\ invocations = <<>>
  /\ ruleOp = NoRuleOp
  /\ \E n \in 0..MaxRules :
       \E modules \in [1..n -> RuleModules] :
         ruleFiles = [i \in 1..n |-> [name |-> RuleNames[i], module |-> modules[i]]]

\* new RuleEngine(): the constructor calls loadRules
LoadRules ==
  /\ phase = "load"
  /\ rules' = loadRules(ruleFiles)
  /\ phase' = "loaded"
  /\ UNCHANGED <<fs, now, rootExists, appConfig, projects, idx, cycle, scanInfo,
                 call, extWrites, throws, stagings, cleanRun, original,
                 fileHashes, pathMapping>>
  /\ UNCHANGED <<rulesConfig, ruleProject, results, invocations, ruleFiles, ruleOp>>
  /\ UNCHANGED tempVars
  /\ UNCHANGED executorVars

SpecLoad == InitLoad /\ [][LoadRules]_vars

(***************************************************************************)
(* Hot reloading: the rules directory is edited while the engine lives and *)
(* reloadRules() is called any number of times.                            *)
(***************************************************************************)
\* the modules a file of the edited directory may hold; "noFile" is a name
\* the directory does not have
NoFile == [kind |-> "noFile", keys |-> <<>>]

ReloadModules ==
  { [kind |-> "function", keys |-> <<>>],
    [kind |-> "throws", keys |-> <<>>],
    [kind |-> "object", keys |-> <<"data", "f2">>] }

\* readdirSync of a directory holding module content[i] under the i-th name
RuleDirectory(content) ==
  SelectSeq([i \in 1..MaxRules |-> [name |-> RuleNames[i], module |-> content[i]]],
            LAMBDA file : file.module # NoFile)

RuleDirectories == [1..MaxRules -> ReloadModules \cup {NoFile}]

\* rules.set(fileName, ruleFunction) for each entry in turn: a Map keeps
\* the place of a key it already has
RECURSIVE RegistrySet(_, _)
RegistrySet(registry, entries) ==
  IF entries = <<>> THEN registry
  ELSE LET e == Head(entries)
           held == {i \in 1..Len(registry) : registry[i].name = e.name}
       IN RegistrySet(IF held = {} THEN Append(registry, e)
                      ELSE [i \in 1..Len(registry) |->
                              IF i \in held THEN e ELSE registry[i]],
                      Tail(entries))

\* reloadRules() without the clear
reloadRules_NoClear(registry, files) ==
  RegistrySet(registry, loadRules(files))

\* reloadRules(): this.rules.clear(); this.loadRules()
reloadRules(registry, files) ==
  LET cleared == <<>>
  IN RegistrySet(cleared, loadRules(files))

InitReload ==
  /\ PipelineIdle
  /\ phase = "load"
  /\ TempIdle
  /\ ExecutorIdle
  /\ rules = <<>>
  /\ rulesConfig = EmptyMap
  /\ ruleProject = <<>>
  /\ results = EmptyMap
  /\ invocations = <<>>
  /\ ruleOp = NoRuleOp
  /\ \E content \in RuleDirectories : ruleFiles = RuleDirectory(content)

\* what the directory holds under each name
DirectoryContent(files) ==
  [i \in 1..MaxRules |->
     IF \E k \in 1..Len(files) : files[k].name = RuleNames[i]
     THEN files[CHOOSE k \in 1..Len(files) : files[k].name = RuleNames[i]].module
     ELSE NoFile]

\* a file of the rules directory is added, removed or rewritten
RuleFilesChange ==
  /\ phase \in {"loaded", "reloaded"}
  /\ extWrites < MaxEvents
  /\ extWrites' = extWrites + 1
  /\ \E i \in 1..MaxRules : \E module \in ReloadModules \cup {NoFile} :
       /\ module # DirectoryContent(ruleFiles)[i]
       /\ ruleFiles' = RuleDirectory([DirectoryContent(ruleFiles) EXCEPT ![i] = module])
  /\ phase' = "loaded"
  /\ UNCHANGED <<fs, now, rootExists, appConfig, projects, idx, cycle, scanInfo,
                 call, throws, stagings, cleanRun, original,
                 fileHashes, pathMapping>>
  /\ UNCHANGED <<rules, rulesConfig, ruleProject, results, invocations, ruleOp>>
  /\ UNCHANGED tempVars
  /\ UNCHANGED executorVars

\* ruleEngine.reloadRules()
ReloadRules ==
  /\ phase \in {"loaded", "reloaded"}
  /\ rules' = reloadRules(rules, ruleFiles)
  /\ ruleOp' = [op |-> "reloadRules", before |-> rules]
  /\ phase' = "reloaded"
  /\ UNCHANGED <<fs, now, rootExists, appConfig, projects, idx, cycle, scanInfo,
                 call, extWrites, throws, stagings, cleanRun, original,
                 fileHashes, pathMapping>>
  /\ UNCHANGED <<rulesConfig, ruleProject, results, invocations, ruleFiles>>
  /\ UNCHANGED tempVars
  /\ UNCHANGED executorVars

NextReload == LoadRules \/ RuleFilesChange \/ ReloadRules

SpecReload == InitReload /\ [][NextReload]_vars

(***************************************************************************)
(* The executor in autorun mode: start(), the loop of runAutorunCycle with *)
(* its wait between two scans, and stop() arriving at any moment.          *)
(***************************************************************************)
\* config.app.scanIntervalMs, in seconds
ScanIntervals == {5, 30, 60}

\* waitWithCountdown(intervalMs): the timers it awaits one after the other,
\* each with its length in seconds and whether the running flag is tested
\* when it has fired
Timers(totalSeconds) ==
  IF totalSeconds >= 30
  THEN LET milestones == SelectSeq(<<50, 30, 10>>, LAMBDA m : m < totalSeconds)
       IN [k \in 1..Len(milestones) |->
             [seconds |-> (IF k = 1 THEN totalSeconds ELSE milestones[k - 1])
                          - milestones[k],
              recheck |-> TRUE,
              interval |-> totalSeconds]]
          \o <<[seconds |-> IF milestones = <<>> THEN totalSeconds
                            ELSE milestones[Len(milestones)],
                recheck |-> FALSE,
                interval |-> totalSeconds]>>
  ELSE <<[seconds |-> totalSeconds, recheck |-> FALSE, interval |-> totalSeconds]>>

\* the loop going on whatever the running flag says
LoopContinues_Always(running) == TRUE

\* while (this.isRunning && config.app.autorun), autorun being on
LoopContinues(running) == running

InitLoop ==
  /\ rootExists = TRUE
  /\ fs \in InitialTrees
  /\ appConfig \in [forceReprocess : BOOLEAN, testMode : {FALSE}]
  /\ now = 0
  /\ projects = <<>>
  /\ phase = "idle"
  /\ idx = 1
  /\ cycle = 0
  /\ scanInfo = NoScan
  /\ call = NoCall
  /\ extWrites = 0
  /\ throws = 0
  /\ stagings = 0
  /\ cleanRun = 0
  /\ original = fs
  /\ fileHashes = EmptyMap
  /\ pathMapping = EmptyMap
  /\ RulesIdle
  /\ ExecutorIdle
  /\ TempIdle

\* start(): sets the flag and enters runAutorunCycle
Start ==
  /\ phase = "idle"
  /\ ~isRunning
  /\ isRunning' = TRUE
  /\ phase' = "scan"
  /\ UNCHANGED pipelineVarsButPhase
  /\ UNCHANGED <<scanOp, waiting>>
  /\ UNCHANGED activationVars
  /\ UNCHANGED ruleVars
  /\ UNCHANGED tempVars

\* stop(): clears the flag; scanner.stop only clears scanner.running
Stop ==
  /\ isRunning
  /\ isRunning' = FALSE
  /\ UNCHANGED phase
  /\ UNCHANGED pipelineVarsButPhase
  /\ UNCHANGED <<scanOp, waiting>>
  /\ UNCHANGED activationVars
  /\ UNCHANGED ruleVars
  /\ UNCHANGED tempVars

\* the loop condition holds: the next cycle begins with its scan
LoopScan ==
  /\ LoopContinues(isRunning)
  /\ PerformScan

\* the loop condition fails: runAutorunCycle returns
LoopExit ==
  /\ phase = "scan"
  /\ ~LoopContinues(isRunning)
  /\ phase' = "exited"
  /\ UNCHANGED pipelineVarsButPhase
  /\ UNCHANGED executorVars
  /\ UNCHANGED ruleVars
  /\ UNCHANGED tempVars

\* after the loop over the projects: the wait is entered if the flag is
\* still set, otherwise the loop condition is tested at once
AfterProjects ==
  /\ phase = "process"
  /\ idx > Len(projects)
  /\ IF isRunning
     THEN /\ phase' = "wait"
          /\ \E totalSeconds \in ScanIntervals : waiting' = Timers(totalSeconds)
     ELSE /\ phase' = "scan"
          /\ waiting' = <<>>
  /\ UNCHANGED pipelineVarsButPhase
  /\ UNCHANGED <<scanOp, isRunning>>
  /\ UNCHANGED activationVars
  /\ UNCHANGED ruleVars
  /\ UNCHANGED tempVars

\* the timer waitWithCountdown awaits fires: it returns if the flag is
\* tested and found cleared or if this was the last timer
TimerFires ==
  /\ phase = "wait"
  /\ waiting # <<>>
  /\ IF (Head(waiting).recheck /\ ~isRunning) \/ Tail(waiting) = <<>>
     THEN /\ phase' = "scan"
          /\ waiting' = <<>>
     ELSE /\ phase' = "wait"
          /\ waiting' = Tail(waiting)
  /\ UNCHANGED pipelineVarsButPhase
  /\ UNCHANGED <<scanOp, isRunning>>
  /\ UNCHANGED activationVars
  /\ UNCHANGED ruleVars
  /\ UNCHANGED tempVars

\* a step in which the awaited processProject call of the loop returns
ProjectHandled ==
  /\ phase = "process"
  /\ idx <= Len(projects)
  /\ projects[idx].status = "ready"
  /\ idx' = idx + 1

NextLoop ==
  \/ Start
  \/ Stop
  \/ LoopScan
  \/ LoopExit
  \/ ProcessProject
  \/ AfterProjects
  \/ TimerFires

\* a continuation that is due runs, a timer that is set fires, and an
\* awaited processProject call returns
SpecLoop ==
  /\ InitLoop
  /\ [][NextLoop]_vars
  /\ WF_vars(LoopExit \/ AfterProjects \/ TimerFires)
  /\ WF_idx(ProjectHandled)

(***************************************************************************)
(* The end of a scan cycle: the downstream services are triggered over     *)
(* HTTP, the JSONAnalyzer first and the ToolManager after it.              *)
(***************************************************************************)
\* what a fetch of trigger-scan can end in: a response with ok set whose
\* body parses or does not, a response with another status, a rejection
Responses == {"ok", "okBadJson", "notOk", "rejects"}

\* the for loop over the attempts, from attempt on: the requests sent,
\* analyzerSuccess, and whether the last catch threw
RECURSIVE AnalyzerAttempts(_, _, _)
AnalyzerAttempts(responses, attempt, sent) ==
  IF attempt > 3 THEN [sent |-> sent, analyzerSuccess |-> FALSE, threw |-> FALSE]
  ELSE LET request == [to |-> "JSONAnalyzer", attempt |-> attempt,
                       response |-> responses[attempt]]
       IN IF responses[attempt] = "ok"
          THEN [sent |-> Append(sent, request), analyzerSuccess |-> TRUE,
                threw |-> FALSE]
          ELSE IF responses[attempt] = "notOk"
          THEN AnalyzerAttempts(responses, attempt + 1, Append(sent, request))
          ELSE IF attempt < 3
               THEN AnalyzerAttempts(responses, attempt + 1, Append(sent, request))
               ELSE [sent |-> Append(sent, request), analyzerSuccess |-> FALSE,
                     threw |-> TRUE]

\* the ToolManager triggered whatever the JSONAnalyzer answered
AfterAttempts_NoSuccessTest(attempts, toolResponse) ==
  IF attempts.threw THEN attempts.sent
  ELSE Append(attempts.sent,
              [to |-> "ToolManager", attempt |-> 1, response |-> toolResponse])

\* triggerDownstreamServices after the for loop: the outer catch, the
\* return when no attempt succeeded, the request to the ToolManager
AfterAttempts(attempts, toolResponse) ==
  IF attempts.threw THEN attempts.sent
  ELSE IF ~attempts.analyzerSuccess THEN attempts.sent
  ELSE Append(attempts.sent,
              [to |-> "ToolManager", attempt |-> 1, response |-> toolResponse])

\* triggerDownstreamServices(): the requests it sends, in order
triggerDownstreamServices(responses, toolResponse) ==
  AfterAttempts(AnalyzerAttempts(responses, 1, <<>>), toolResponse)

\* a cycle of runAutorunCycle that has scanned and handled its projects
InitTrigger ==
  /\ rootExists = TRUE
  /\ fs \in InitialTrees
  /\ appConfig = [forceReprocess |-> FALSE, testMode |-> FALSE]
  /\ now = 0
  /\ projects = ScanFiles(fs, appConfig, "none",
                          groupJsonFilesByProject(findAllJsonFiles(fs)))
  /\ phase = "projectsDone"
  /\ idx = Len(projects) + 1
  /\ cycle = 1
  /\ scanInfo = NoScan
  /\ call = NoCall
  /\ extWrites = 0
  /\ throws = 0
  /\ stagings = 0
  /\ cleanRun = 0
  /\ original = fs
  /\ fileHashes = EmptyMap
  /\ pathMapping = EmptyMap
  /\ RulesIdle
  /\ TempIdle
  /\ scanOp = NoScanOp
  /\ isRunning = TRUE
  /\ waiting = <<>>
  /\ autorun = TRUE
  /\ activations = <<>>
  /\ requests = <<>>

\* runAutorunCycle after the loop over the projects: the services are
\* triggered if the scan gave projects
TriggerDownstream ==
  /\ phase = "projectsDone"
  /\ \E responses \in [1..3 -> Responses], toolResponse \in Responses :
       requests' = IF Len(projects) > 0
                   THEN triggerDownstreamServices(responses, toolResponse)
                   ELSE <<>>
  /\ phase' = "triggered"
  /\ UNCHANGED pipelineVarsButPhase
  /\ UNCHANGED <<scanOp, isRunning, waiting, autorun, activations>>
  /\ UNCHANGED ruleVars
  /\ UNCHANGED tempVars

SpecTrigger == InitTrigger /\ [][TriggerDownstream]_vars

(***************************************************************************)
(* The executor with its calls running side by side: every call of         *)
(* runAutorunCycle, runManualMode and runManualProject is an activation    *)
(* that goes on from one await to the next, and start(), stop() and        *)
(* runManualProject() are called from outside at any moment.               *)
(***************************************************************************)
MaxStarts == 2   \* calls from outside that get past the isRunning test

\* what start() and runManualProject() read and write
ExecState(running, auto, acts) ==
  [isRunning |-> running, autorun |-> auto, activations |-> acts]

\* a call of runAutorunCycle, entered by via; its while condition holds when
\* start() calls it, so that it runs on to its first await, performScan
AutorunActivation(via) ==
  [kind |-> "autorun", pc |-> "body", via |-> via, found |-> TRUE, left |-> TRUE]

\* runManualProject(projectPath) up to its first await: autorun is cleared,
\* the path is queued, and either the poll of isRunning begins or, the
\* flag being clear, the project is scanned and processProject awaited
runManualProject(st, via) ==
  [st EXCEPT
     !.autorun = IF st.autorun THEN FALSE ELSE st.autorun,
     !.activations = Append(st.activations,
                            [kind |-> "manual",
                             pc |-> IF st.isRunning THEN "poll" ELSE "run",
                             via |-> via, found |-> st.autorun, left |-> FALSE])]

\* start(options) up to the first await of the branch it takes
start(st, options, via) ==
  IF st.isRunning THEN st
  ELSE IF st.autorun
       THEN [st EXCEPT !.isRunning = TRUE,
                       !.activations = Append(st.activations, AutorunActivation(via))]
       ELSE IF options = "projectPath"
            THEN runManualProject([st EXCEPT !.isRunning = TRUE], via)
            ELSE [st EXCEPT !.isRunning = TRUE,
                            !.activations = Append(st.activations,
                                                   [kind |-> "manualMode", pc |-> "body",
                                                    via |-> via, found |-> FALSE,
                                                    left |-> FALSE])]

InitExec ==
  /\ PipelineIdle
  /\ phase = "executor"
  /\ RulesIdle
  /\ TempIdle
  /\ scanOp = NoScanOp
  /\ isRunning = FALSE
  /\ waiting = <<>>
  /\ autorun \in BOOLEAN
  /\ activations = <<>>
  /\ requests = <<>>

\* what a step of the executor leaves alone
ExecFrame ==
  /\ UNCHANGED pipelineVars
  /\ UNCHANGED <<scanOp, waiting, requests>>
  /\ UNCHANGED ruleVars
  /\ UNCHANGED tempVars

ExecReturned(st) ==
  /\ isRunning' = st.isRunning
  /\ autorun' = st.autorun
  /\ activations' = st.activations
  /\ ExecFrame

\* the calls from outside that started an activation
FromOutside == {i \in 1..Len(activations) : activations[i].via \in {"start", "api"}}

\* executor.start(options); with the flag set it returns at once
ExecStart ==
  /\ phase = "executor"
  /\ ~isRunning
  /\ Cardinality(FromOutside) < MaxStarts
  /\ \E options \in {"none", "projectPath"} :
       ExecReturned(start(ExecState(isRunning, autorun, activations), options, "start"))

\* executor.runManualProject(projectPath) called on its own
ExecRunManualProject ==
  /\ phase = "executor"
  /\ Cardinality(FromOutside) < MaxStarts
  /\ ExecReturned(runManualProject(ExecState(isRunning, autorun, activations), "api"))

\* executor.stop()
ExecStop ==
  /\ phase = "executor"
  /\ isRunning
  /\ ExecReturned(ExecState(FALSE, autorun, activations))

\* activation i is at pc and moves on to next
Moves(i, kind, pc, next) ==
  /\ phase = "executor"
  /\ activations[i].kind = kind
  /\ activations[i].pc = pc
  /\ activations' = [activations EXCEPT ![i].pc = next]

\* while (this.isRunning && config.app.autorun)
LoopTest(i) ==
  /\ Moves(i, "autorun", "test", IF isRunning /\ autorun THEN "body" ELSE "ended")
  /\ UNCHANGED <<isRunning, autorun>>
  /\ ExecFrame

\* the awaits of the loop body have returned: the wait is entered if
\* isRunning && autorun, otherwise the loop condition is tested
LoopBody(i) ==
  /\ Moves(i, "autorun", "body", IF isRunning /\ autorun THEN "wait" ELSE "test")
  /\ UNCHANGED <<isRunning, autorun>>
  /\ ExecFrame

\* waitWithCountdown returns
LoopWait(i) ==
  /\ Moves(i, "autorun", "wait", "test")
  /\ UNCHANGED <<isRunning, autorun>>
  /\ ExecFrame

\* runManualMode returns; start() returns with it, the flag stays set
ManualModeEnds(i) ==
  /\ Moves(i, "manualMode", "body", "ended")
  /\ UNCHANGED <<isRunning, autorun>>
  /\ ExecFrame

\* while (this.isRunning) await ...: the timer fires and the flag is found
\* clear; the project is scanned and processProject is awaited
ManualPoll(i) ==
  /\ ~isRunning
  /\ Moves(i, "manual", "poll", "run")
  /\ UNCHANGED <<isRunning, autorun>>
  /\ ExecFrame

\* processProject has returned: config.app.autorun = true; await this.start()
ManualFinish(i) ==
  /\ phase = "executor"
  /\ activations[i].kind = "manual"
  /\ activations[i].pc = "run"
  /\ ExecReturned(start(ExecState(isRunning, TRUE,
                                  [activations EXCEPT ![i].pc = "resumed",
                                                      ![i].left = TRUE]),
                        "none", "resume"))

\* an activation goes on from its await
Continues ==
  \E i \in 1..Len(activations) :
    \/ LoopTest(i)
    \/ LoopBody(i)
    \/ LoopWait(i)
    \/ ManualModeEnds(i)
    \/ ManualPoll(i)
    \/ ManualFinish(i)

NextExec == ExecStart \/ ExecRunManualProject \/ ExecStop \/ Continues

\* a timer that is set fires and an awaited call returns; nobody has to
\* call start(), stop() or runManualProject()
SpecExec == InitExec /\ [][NextExec]_vars /\ WF_vars(Continues)

(***************************************************************************)
(* Further properties of the scan (checked under Spec).                    *)
(***************************************************************************)
\* the text at path, sanitized, parses to a JSON object or array
LoadsAt(path) ==
  /\ path \in DOMAIN fs
  /\ JsonParse(sanitizeJsonContent(fs[path].body)).ok
  /\ JsonParse(sanitizeJsonContent(fs[path].body)).truthy

\* C21: every project performScan adds to the project list has loaded its
\* JSON and has status ready; a descriptor whose JSON does not load yields
\* no project.
C21_EmittedLoadedAndReady ==
  [][ScanStep =>
       /\ \A i \in 1..Len(projects') :
            /\ projects'[i].status = "ready"
            /\ projects'[i].isValid
            /\ LoadsAt(projects'[i].jsonFilePath)
       /\ \A d \in Descriptors :
            (DescriptorPath(d) \in DOMAIN fs /\ ~LoadsAt(DescriptorPath(d))) =>
              ~EmittedByScan(d)]_vars

\* the first scan found a descriptor that loads and one that does not, and
\* has added a project for the first only
C21_Witness ==
  /\ cycle = 1
  /\ phase = "process"
  /\ idx = 1
  /\ Len(projects) = 1
  /\ projects[1].status = "ready"
  /\ LoadsAt(projects[1].jsonFilePath)
  /\ \E d \in Descriptors :
       /\ DescriptorPath(d) \in DOMAIN fs
       /\ ~LoadsAt(DescriptorPath(d))
       /\ [DescriptorPath(d) EXCEPT !.suffix = "_BRK_fatal"] \notin DOMAIN fs

(***************************************************************************)
(* Further properties of the rule engine (checked under SpecRules).        *)
(***************************************************************************)
\* the rule at position i has no entry in config.rules, or an entry
\* without a predicate function
Unconfigured(i) == rulesConfig[rules[i].name] \in {"absent", "noLogic"}

Scanned == scanOp.op = "performScan"

\* the project list holds a project for the descriptor at path
InProjects(path) == \E i \in 1..Len(projects) : projects[i].jsonFilePath = path

\* the place of the descriptor at path in the list findAllJsonFiles returned
WalkPosition(path) ==
  CHOOSE k \in 1..Len(scanOp.files) : scanOp.files[k].fullPath = path

\* C22: performScan called with a root path returns the list of the
\* projects it discovered under that root: the returned value is an array,
\* and every project comes from a descriptor under the root.
C22_ReturnsProjectsOfRoot ==
  (Scanned /\ scanOp.operatorFilter = "scanRoot") =>
    /\ scanOp.returned \in {"array", "emptyArray"}
    /\ \A i \in 1..Len(projects) :
         projects[i].jsonFilePath \in StagedPaths \cap DOMAIN original

\* performScan was handed the scan root, which holds descriptors that load
\* and meets no fault: it returned undefined and added no project
C22_RootGivenNothingReturned ==
  /\ Scanned
  /\ scanOp.operatorFilter = "scanRoot"
  /\ scanOp.fault.unreadable = {}
  /\ scanOp.fault.at = "none"
  /\ Len(scanOp.files) = NumStaged
  /\ scanOp.returned = "undefined"
  /\ projects = <<>>

\* C23: performScan never propagates an exception: the descriptors of an
\* unreadable directory are left out while those of the other directories
\* are handled, and a descriptor whose handling throws does not keep any
\* other descriptor from being handled as it would have been without it.
C23_FaultsContained ==
  Scanned =>
    /\ ~scanOp.propagated
    /\ \A path \in StagedPaths \cap DOMAIN original :
         IF 0 \in scanOp.fault.unreadable \/ path.dir \in scanOp.fault.unreadable
         THEN ~InProjects(path)
         ELSE IF path = scanOp.fault.path /\ scanOp.fault.at = "beforePush"
         THEN ~InProjects(path)
         ELSE InProjects(path) <=>
                ScanOne(original, appConfig, scanOp.operatorFilter,
                        extractProjectInfoFromPath(path)) # <<>>

\* folder 2 could not be read and the first descriptor of folder 1 threw:
\* the descriptor after it in folder 1 still got its project
C23_Witness ==
  /\ Scanned
  /\ scanOp.fault = [unreadable |-> {2}, path |-> DescriptorPath(1), at |-> "beforePush"]
  /\ StagedPaths \subseteq DOMAIN original
  /\ ~InProjects(DescriptorPath(1))
  /\ ~InProjects(DescriptorPath(2))
  /\ InProjects(DescriptorPath(3))

\* C27: findAllJsonFiles reports a descriptor only when its directory also
\* holds a file with an NC program extension.
C27_OnlyBesidePrograms ==
  Scanned =>
    \A k \in 1..Len(scanOp.files) :
      ProgramPath(scanOp.files[k].fullPath.dir) \in DOMAIN original

\* the tree holds no NC program file at all, and findAllJsonFiles reported
\* every descriptor in it
C27_FoundWithoutProgram ==
  /\ Scanned
  /\ \A k \in {1, 2} : ProgramPath(k) \notin DOMAIN original
  /\ Len(scanOp.files) = NumStaged
  /\ \A path \in StagedPaths : \E k \in 1..Len(scanOp.files) : scanOp.files[k].fullPath = path

\* C30: the projects of a cycle are processed one at a time, in the order
\* in which the directory walk discovered their descriptors: a project
\* that has been processed was discovered before every project after it in
\* the list.
C30_ProcessedInWalkOrder ==
  (Scanned /\ phase = "process") =>
    \A i \in 1..Len(projects) : \A j \in 1..Len(projects) :
      (i < idx /\ i < j) =>
        WalkPosition(projects[i].jsonFilePath) < WalkPosition(projects[j].jsonFilePath)

\* the descriptor in folder 2 shares its key with the first descriptor of
\* folder 1: its project has been processed while the project of the
\* second descriptor of folder 1, which the walk met earlier, still waits
C30_ProcessedBeforeEarlierFound ==
  /\ Scanned
  /\ phase = "process"
  /\ Len(projects) = 3
  /\ idx = 3
  /\ projects[2].jsonFilePath = DescriptorPath(2)
  /\ projects[2].status # "ready"
  /\ projects[3].jsonFilePath = DescriptorPath(3)
  /\ projects[3].status = "ready"
  /\ WalkPosition(DescriptorPath(3)) < WalkPosition(DescriptorPath(2))

(***************************************************************************)
(* Properties of the descriptor names (checked under SpecNames).           *)
(***************************************************************************)
\* the project bases the pattern accepts among the names tried
ProjectBases ==
  {<<"W", "1", "2", "3", "4", "A", "B">> \o number :
     number \in {<<"0", "1">>, <<"0", "1", "0", "0", "3">>}}

DotJson == <<".", "j", "s", "o", "n">>

\* the names have been matched and grouped
Grouped == scanOp.op = "groupJsonFilesByProject"

\* C26: extractProjectInfoFromPath maps a descriptor name with a trailing
\* position letter to its base and that letter, and a name without one to
\* its base and position "A"; the key is base followed by position, so two
\* descriptors are in one group exactly when base and position agree, as
\* W1234AB01A.json and W1234AB01.json do.
C26_NameToBaseAndPosition ==
  Grouped =>
    /\ \A i \in 1..2 : \A base \in ProjectBases :
         /\ \A letter \in {"A", "B"} :
              scanOp.fileNames[i] = base \o <<letter>> \o DotJson =>
                /\ scanOp.infos[i].projectBase = base
                /\ scanOp.infos[i].position = <<letter>>
                /\ scanOp.infos[i].projectName = base \o <<letter>>
         /\ scanOp.fileNames[i] = base \o DotJson =>
              /\ scanOp.infos[i].projectBase = base
              /\ scanOp.infos[i].position = <<"A">>
              /\ scanOp.infos[i].projectName = base \o <<"A">>
    /\ (\A i \in 1..2 : scanOp.infos[i].projectName # "null") =>
         /\ Len(scanOp.grouped) = 2
         /\ (scanOp.grouped[1].projectName = scanOp.grouped[2].projectName) <=>
              /\ scanOp.infos[1].projectBase = scanOp.infos[2].projectBase
              /\ scanOp.infos[1].position = scanOp.infos[2].position

\* W1234AB01A.json and W1234AB01.json have been given the same key
C26_Witness ==
  /\ Grouped
  /\ scanOp.fileNames[1] = <<"W", "1", "2", "3", "4", "A", "B", "0", "1", "A">> \o DotJson
  /\ scanOp.fileNames[2] = <<"W", "1", "2", "3", "4", "A", "B", "0", "1">> \o DotJson
  /\ scanOp.infos[1].projectName = scanOp.infos[2].projectName
  /\ scanOp.infos[2].position = <<"A">>

(***************************************************************************)
(* Properties of rule discovery (checked under SpecLoad).                  *)
(***************************************************************************)
\* the functions among the values a module object holds
FunctionsOf(ruleModule) ==
  {k \in 1..Len(ruleModule.keys) : ruleModule.keys[k] # "data"}

\* the function rule discovery is to register for a module, "null" if the
\* module is to be rejected
Expected(ruleModule) ==
  IF ruleModule.kind = "function" THEN "f0"
  ELSE IF ruleModule.kind = "object" /\ FunctionsOf(ruleModule) # {}
       THEN ruleModule.keys[CHOOSE k \in FunctionsOf(ruleModule) :
                              \A j \in FunctionsOf(ruleModule) : k <= j]
       ELSE "null"

\* the functions registered under name
RegisteredAs(name) == {rules[i].fn : i \in {j \in 1..Len(rules) : rules[j].name = name}}

\* C25: rule discovery handles each module on its own: a module that fails
\* to load or exposes no function is not registered, a module that is a
\* function or exposes one function is registered under its file name with
\* that function, a module exposing several with the first of them,
\* whatever the other modules of the directory are.
C25_EachModuleOnItsOwn ==
  phase = "loaded" =>
    /\ \A i \in 1..Len(ruleFiles) :
         RegisteredAs(ruleFiles[i].name) =
           IF Expected(ruleFiles[i].module) = "null" THEN {}
           ELSE {Expected(ruleFiles[i].module)}
    /\ Len(rules) <= Len(ruleFiles)
    /\ \A i \in 1..Len(rules) : \A j \in 1..Len(rules) :
         i < j => \E k \in 1..Len(ruleFiles) : \E l \in 1..Len(ruleFiles) :
                    /\ k < l
                    /\ ruleFiles[k].name = rules[i].name
                    /\ ruleFiles[l].name = rules[j].name

\* a module that throws on require, followed by one without a function and
\* one exposing two functions behind a data value: only the last is
\* registered, with the first of its functions
C25_Witness ==
  /\ phase = "loaded"
  /\ Len(ruleFiles) = 3
  /\ ruleFiles[1].module.kind = "throws"
  /\ ruleFiles[2].module = [kind |-> "object", keys |-> <<"data">>]
  /\ ruleFiles[3].module = [kind |-> "object", keys |-> <<"f2", "f1">>]
  /\ rules = <<[name |-> ruleFiles[3].name, fn |-> "f2"]>>

(***************************************************************************)
(* Properties of the autorun loop (checked under SpecLoop).                *)
(***************************************************************************)
\* stop() has been called after start()
Stopped == ~isRunning /\ phase # "idle"

\* C28: once stop() has been called and start() is not called again, no
\* further scan cycle begins, and the work in flight goes on until
\* runAutorunCycle is left.
C28_NoCycleAfterStop ==
  /\ [][Stopped => (cycle' = cycle /\ scanInfo' = scanInfo)]_vars
  /\ (Stopped ~> phase \in {"exited", "crashed"})

\* stop() came while the second project of a cycle was still to be
\* processed; it has been processed and the loop has been left, no scan
\* having followed
C28_Witness ==
  /\ phase = "exited"
  /\ ~isRunning
  /\ cycle = 1
  /\ Len(projects) = 2
  /\ \A i \in 1..2 : projects[i].status = "completed"

\* C29: the wait between two scans tests the running flag again and again,
\* so that for every scan interval a stop() issued while the wait has just
\* begun ends it at a test of the flag, before the interval is over.
C29_StopEndsWait ==
  (phase = "wait" /\ ~isRunning /\ waiting = Timers(waiting[1].interval)) =>
    waiting[1].recheck

\* the interval is shorter than 30 seconds and stop() came during the
\* wait: the only timer runs the whole interval and no test follows it
C29_ShortWaitUnchecked ==
  /\ phase = "wait"
  /\ ~isRunning
  /\ waiting = <<[seconds |-> 5, recheck |-> FALSE, interval |-> 5]>>

(***************************************************************************)
(* A predicate that throws (checked under SpecRules).                      *)
(***************************************************************************)
\* the predicate configured for the rule at position i throws
PredicateThrows(i) == rulesConfig[rules[i].name] = "throws"

\* C40: when the configured predicate of a rule throws, executeRules takes
\* the rule as not applicable: its callable is not invoked, its slot holds
\* null and no error entry, and every other rule is evaluated as it would
\* be otherwise.
C40_ThrowingPredicateSkips ==
  phase = "rulesDone" =>
    \A i \in 1..Len(rules) :
      PredicateThrows(i) =>
        /\ CallsOf(i) = <<>>
        /\ results[rules[i].name] = [kind |-> "null"]
        /\ \A j \in 1..Len(rules) :
             /\ rules[j].name \in DOMAIN results
             /\ rulesConfig[rules[j].name] = "true" => CallsOf(j) # <<>>

\* the predicate of the first of three rules threw: its slot is null and
\* the two rules after it ran
C40_Witness ==
  /\ phase = "rulesDone"
  /\ Len(rules) = 3
  /\ PredicateThrows(1)
  /\ results[rules[1].name] = [kind |-> "null"]
  /\ CallsOf(1) = <<>>
  /\ rulesConfig[rules[2].name] = "true"
  /\ rulesConfig[rules[3].name] = "true"
  /\ CallsOf(2) # <<>>
  /\ CallsOf(3) # <<>>

(***************************************************************************)
(* Further properties of the TempFileManager (checked under SpecTemp).     *)
(***************************************************************************)
\* the paths the last detectChanges computed a hash for
HashedPaths == {tempOp.changes.hashed[k] : k \in 1..Len(tempOp.changes.hashed)}

C37_UpdateSettlesChanges ==
  (Detected /\ tempOp.afterUpdate) => ~tempOp.changes.hasChanges

\* a tracked file was removed: detectChanges reported it deleted,
\* updateChangedFiles was applied, and the detectChanges after it reports
\* the same file deleted again
C37_DeletedReportedAgain ==
  /\ Detected
  /\ tempOp.afterUpdate
  /\ tempOp.changes.hasChanges
  /\ DeletedPaths # {}
  /\ DeletedPaths \subseteq DOMAIN fileHashes
  /\ ChangedPaths = {}
  /\ NewPaths = {}

(***************************************************************************)
(* Properties of reloadRules (checked under SpecReload).                   *)
(***************************************************************************)
\* the names under which the registry holds a function
RegisteredNames(registry) == {registry[i].name : i \in 1..Len(registry)}

StagedSources == {q \in DOMAIN fileHashes : fileHashes[q].tempPath \in DOMAIN fs}

\* C39: whatever an external writer does while copyFileToTemp runs, the
\* hash recorded for a source is the hash of the content of its staged copy.
C39_RecordedHashIsOfCopy ==
  \A q \in StagedSources :
    fileHashes[q].hash = calculateFileHash(fs, fileHashes[q].tempPath)

\* the source was rewritten between the hash and the copy: the copy holds
\* the new content, the recorded hash is the one of the old, and the
\* recorded time is the one of the new, so that detectChanges sees nothing
C39_HashOfOldContent ==
  /\ tempOp.op = "copied"
  /\ ~tempOp.threw
  /\ extWrites = 1
  /\ tempOp.source \in StagedSources
  /\ fileHashes[tempOp.source].hash # calculateFileHash(fs, TempPath(tempOp.source))
  /\ fs[TempPath(tempOp.source)].body = fs[tempOp.source].body
  /\ fileHashes[tempOp.source].mtime = fs[tempOp.source].mtime
  /\ ~detectChanges(fs, fileHashes, <<tempOp.source>>, NoChanges).hasChanges

(***************************************************************************)
(* Properties of the two maps of the TempFileManager (checked under        *)
(* SpecPaths).                                                             *)
(***************************************************************************)
\* C38: after any sequence of copyToTemp calls the forward and the reverse
\* map agree: getOriginalPath(getTempPath(s)) = s for every tracked source
\* s, and no two tracked sources have the same staged path.
C38_MapsAgree ==
  /\ \A q \in DOMAIN fileHashes :
       getOriginalPath(pathMapping, fileHashes, getTempPath(fileHashes, q)) = q
  /\ \A q \in DOMAIN fileHashes : \A r \in DOMAIN fileHashes :
       q # r => getTempPath(fileHashes, q) # getTempPath(fileHashes, r)

\* /a/a and /a_SLASH_a were both staged: they have the same staged path,
\* which holds the content of the one staged last, and the reverse map
\* gives that one for both
C38_TwoSourcesOneCopy ==
  /\ DOMAIN fileHashes = {<<"/", "a", "/", "a">>, <<"/", "a", "_SLASH_", "a">>}
  /\ \E q \in DOMAIN fileHashes : \E r \in DOMAIN fileHashes :
       /\ q # r
       /\ getTempPath(fileHashes, q) = getTempPath(fileHashes, r)
       /\ getOriginalPath(pathMapping, fileHashes, getTempPath(fileHashes, q)) = r
       /\ fs[getTempPath(fileHashes, q)].body = fs[r].body
       /\ fs[q].body # fs[r].body
       /\ tempOp.source = r

(***************************************************************************)
(* Properties of the downstream triggers (checked under SpecTrigger).      *)
(***************************************************************************)
\* the places of the requests sent to service
RequestsTo(service) == {i \in 1..Len(requests) : requests[i].to = service}

\* C36: the ToolManager is triggered only after a trigger of the
\* JSONAnalyzer of the same invocation has come back ok, the JSONAnalyzer
\* is tried at most three times, and when no try came back ok the
\* ToolManager is not triggered; a cycle without projects triggers nothing.
C36_ToolManagerAfterAnalyzerOk ==
  phase = "triggered" =>
    /\ Cardinality(RequestsTo("JSONAnalyzer")) <= 3
    /\ Cardinality(RequestsTo("ToolManager")) <= 1
    /\ \A i \in RequestsTo("ToolManager") :
         \E j \in RequestsTo("JSONAnalyzer") :
           j < i /\ requests[j].response = "ok"
    /\ (\A j \in RequestsTo("JSONAnalyzer") : requests[j].response # "ok")
         => RequestsTo("ToolManager") = {}
    /\ Len(projects) = 0 => requests = <<>>

\* the JSONAnalyzer rejected the first request, answered the second with
\* an error status and the third with ok; the ToolManager was triggered
\* once, after the third
C36_Witness ==
  /\ phase = "triggered"
  /\ Len(requests) = 4
  /\ requests[1].response = "rejects"
  /\ requests[2].response = "notOk"
  /\ requests[3] = [to |-> "JSONAnalyzer", attempt |-> 3, response |-> "ok"]
  /\ requests[4].to = "ToolManager"

(***************************************************************************)
(* Properties of the executor's activations (checked under SpecExec).      *)
(***************************************************************************)
\* the calls of runAutorunCycle that are inside an iteration of the loop
ActiveLoops ==
  {i \in 1..Len(activations) :
     activations[i].kind = "autorun" /\ activations[i].pc \in {"body", "wait"}}

\* C33: however start() and stop() fall between the timed waits, at most
\* one autorun scan loop of the executor is active.
C33_OneLoopActive ==
  Cardinality(ActiveLoops) <= 1

\* stop() and start() were called while the first loop was inside an
\* iteration: the second start() found the flag clear and began a second
\* loop, the first found it set again, and both are scanning
C33_TwoLoopsScanning ==
  /\ isRunning
  /\ autorun
  /\ Len(activations) = 2
  /\ \A i \in 1..2 : activations[i] = AutorunActivation("start")

\* start({projectPath}) has been called with autorun off
ManualStarted ==
  /\ Len(activations) >= 1
  /\ activations[1].kind = "manual"
  /\ activations[1].via = "start"

\* nothing else has been called from outside: no start() before or after
\* it, no runManualProject(), no stop()
NoOtherCall ==
  \/ activations = <<>> /\ ~isRunning
  \/ Len(activations) = 1 /\ ManualStarted /\ isRunning

\* the project has been scanned and handed to processProject
ManualProcessed ==
  /\ Len(activations) >= 1
  /\ activations[1].pc \in {"run", "resumed"}

\* C34: start({projectPath}) with autorun off gets to scanning and
\* processing the project, without any further call from outside.
C34_ManualProjectRuns ==
  ([]NoOtherCall /\ <>ManualStarted) => <>ManualProcessed

\* start({projectPath}) has set the flag and runManualProject polls it until
\* it is clear: nothing but a call of stop() clears it
C34_PollsOwnFlag ==
  /\ ~autorun
  /\ isRunning
  /\ Len(activations) = 1
  /\ activations[1] = [kind |-> "manual", pc |-> "poll", via |-> "start",
                       found |-> FALSE, left |-> FALSE]
  /\ ~ENABLED Continues

\* C35: runManualProject leaves config.app.autorun as it found it.
C35_AutorunAsFound ==
  \A i \in 1..Len(activations) :
    (activations[i].kind = "manual" /\ activations[i].pc = "resumed")
      => activations[i].left = activations[i].found

\* a manual run begun by start({projectPath}) with autorun off has ended:
\* autorun is on, and the start() at its end has begun an autorun loop
C35_ManualRunTurnsAutorunOn ==
  /\ Len(activations) = 2
  /\ activations[1] = [kind |-> "manual", pc |-> "resumed", via |-> "start",
                       found |-> FALSE, left |-> TRUE]
  /\ activations[2] = AutorunActivation("resume")
  /\ autorun
  /\ isRunning

====
